---- MODULE Spec2Model ----
(***************************************************************************)
(* Case-mapping iterators of roe (lowercase, uppercase, titlecase) over    *)
(* conventionally-UTF-8 byte slices.  Bytes are the integers 0..255 and    *)
(* codepoints are integers; an Option is a sequence of length at most one  *)
(* (<<>> is None, <<x>> is Some(x)).                                       *)
(***************************************************************************)
EXTENDS Integers, Sequences, FiniteSets, TLC

\* Bounds of the explored inputs.
MaxPieces == 3
MaxLen == 5
MaxNoneCalls == 2

\* Constants of the source.
UTF_8_CHAR_MAX_BYTES == 4
TO_LOWER_EXPAND == 3
TO_UPPER_EXPAND == 3
TO_LOWER_OR_TITLE_EXPAND == 3

\* Byte strings the explored slices are concatenated from:
\*   "A", "a", U+00DF, U+212A KELVIN SIGN, U+1F56, a lone continuation byte,
\*   0xFF, a truncated 3-byte sequence, a truncated 4-byte sequence and
\*   U+10400.
Pieces ==
    { <<65>>, <<97>>, <<195, 159>>, <<226, 132, 170>>, <<225, 189, 150>>,
      <<159>>, <<255>>, <<226, 132>>, <<240, 144, 144>>,
      <<240, 144, 144, 128>> }

RECURSIVE SlicesOf(_)
SlicesOf(n) ==
    IF n = 0 THEN { <<>> }
    ELSE LET prev == SlicesOf(n - 1)
         IN prev \cup { s \o p : s \in prev, p \in Pieces }

Slices == { s \in SlicesOf(MaxPieces) : Len(s) <= MaxLen }

None == <<>>
Some(x) == <<x>>

----------------------------------------------------------------------------
\* UTF-8 decoding of one unit (bstr::decode_utf8) and encoding of one char.

\* Length of the sequence a lead byte announces; 0 when the byte cannot lead.
Utf8Width(b) ==
    IF b < 128 THEN 1
    ELSE IF b >= 194 /\ b <= 223 THEN 2
    ELSE IF b >= 224 /\ b <= 239 THEN 3
    ELSE IF b >= 240 /\ b <= 244 THEN 4
    ELSE 0

\* Whether b may be the j-th byte (j >= 2) of a sequence led by lead.
ContinuationOk(lead, j, b) ==
    IF j = 2 /\ lead = 224 THEN b >= 160 /\ b <= 191
    ELSE IF j = 2 /\ lead = 237 THEN b >= 128 /\ b <= 159
    ELSE IF j = 2 /\ lead = 240 THEN b >= 144 /\ b <= 191
    ELSE IF j = 2 /\ lead = 244 THEN b >= 128 /\ b <= 143
    ELSE b >= 128 /\ b <= 191

Codepoint(s, w) ==
    IF w = 1 THEN s[1]
    ELSE IF w = 2 THEN (s[1] - 192) * 64 + (s[2] - 128)
    ELSE IF w = 3 THEN (s[1] - 224) * 4096 + (s[2] - 128) * 64 + (s[3] - 128)
    ELSE (s[1] - 240) * 262144 + (s[2] - 128) * 4096 + (s[3] - 128) * 64
         + (s[4] - 128)

\* Mutant: a truncated or broken sequence is reported with the length its
\* lead byte announces instead of the length of the invalid run.
DecodeUtf8AnnouncedWidth(s) ==
    IF Len(s) = 0 THEN [ch |-> None, size |-> 0]
    ELSE LET w == Utf8Width(s[1])
             bad == { j \in 2..w : j > Len(s) \/ ~ContinuationOk(s[1], j, s[j]) }
         IN IF w = 0 THEN [ch |-> None, size |-> 1]
            ELSE IF bad = {} THEN [ch |-> Some(Codepoint(s, w)), size |-> w]
            ELSE [ch |-> None, size |-> w]

\* Mutant: an invalid sequence is reported as (None, 0), consuming nothing.
DecodeUtf8InvalidConsumesNothing(s) ==
    IF Len(s) = 0 THEN [ch |-> None, size |-> 0]
    ELSE LET w == Utf8Width(s[1])
             bad == { j \in 2..w : j > Len(s) \/ ~ContinuationOk(s[1], j, s[j]) }
         IN IF w = 0 THEN [ch |-> None, size |-> 0]
            ELSE IF bad = {} THEN [ch |-> Some(Codepoint(s, w)), size |-> w]
            ELSE [ch |-> None, size |-> 0]

\* (ch, size): ch is Some(codepoint) for a valid sequence of size bytes, None
\* for a maximal invalid run of size bytes; size is 0 only on an empty slice.
DecodeUtf8(s) ==
    IF Len(s) = 0 THEN [ch |-> None, size |-> 0]
    ELSE LET w == Utf8Width(s[1])
             bad == { j \in 2..w : j > Len(s) \/ ~ContinuationOk(s[1], j, s[j]) }
         IN IF w = 0 THEN [ch |-> None, size |-> 1]
            ELSE IF bad = {} THEN [ch |-> Some(Codepoint(s, w)), size |-> w]
            ELSE LET j == CHOOSE k \in bad : \A m \in bad : k <= m
                 IN [ch |-> None, size |-> j - 1]

EncodeUtf8(cp) ==
    IF cp < 128 THEN <<cp>>
    ELSE IF cp < 2048 THEN <<192 + (cp \div 64), 128 + (cp % 64)>>
    ELSE IF cp < 65536
         THEN <<224 + (cp \div 4096), 128 + ((cp \div 64) % 64),
                128 + (cp % 64)>>
    ELSE <<240 + (cp \div 262144), 128 + ((cp \div 4096) % 64),
           128 + ((cp \div 64) % 64), 128 + (cp % 64)>>

\* The staging buffer after its first Len(bytes) cells are overwritten.
WriteBytes(buf, bytes) ==
    [i \in 1..UTF_8_CHAR_MAX_BYTES |->
        IF i <= Len(bytes) THEN bytes[i] ELSE buf[i]]

is_ascii(s) == \A i \in 1..Len(s) : s[i] < 128

----------------------------------------------------------------------------
\* Per-codepoint case mappings, given for the codepoints that can be decoded
\* from Slices (every other codepoint of that set maps to itself).

\* Mutant: the ASCII capital is left as it is.
ToLowercaseSkipsAscii(ch) ==
    CASE ch = 8490 -> <<107>>
      [] ch = 66560 -> <<66600>>
      [] ch = 66591 -> <<66631>>
      [] OTHER -> <<ch>>

\* char::to_lowercase
ToLowercase(ch) ==
    CASE ch = 65 -> <<97>>
      [] ch = 8490 -> <<107>>
      [] ch = 66560 -> <<66600>>
      [] ch = 66591 -> <<66631>>
      [] OTHER -> <<ch>>

\* char::to_uppercase
ToUppercase(ch) ==
    CASE ch = 97 -> <<65>>
      [] ch = 223 -> <<83, 83>>
      [] ch = 8022 -> <<933, 787, 834>>
      [] OTHER -> <<ch>>

\* u8::to_ascii_lowercase / u8::to_ascii_uppercase
to_ascii_lowercase(b) == IF b >= 65 /\ b <= 90 THEN b + 32 ELSE b
to_ascii_uppercase(b) == IF b >= 97 /\ b <= 122 THEN b - 32 ELSE b

\* The rows of the generated titlecase table for those codepoints and for
\* the codepoints of the examples of to_titlecase ('i', U+01C4, U+FB04),
\* sorted by key; an unused slot holds 0.
SORTED_TITLECASE_MAPPING ==
    << <<97, <<65, 0, 0>>>>,
       <<105, <<73, 0, 0>>>>,
       <<223, <<83, 115, 0>>>>,
       <<452, <<453, 0, 0>>>>,
       <<8022, <<933, 787, 834>>>>,
       <<64260, <<70, 102, 108>>>> >>

\* Mutant: the search gives up when one candidate row is left.
RECURSIVE BinarySearchStopsAtOne(_, _, _, _)
BinarySearchStopsAtOne(table, key, lo, hi) ==
    IF lo >= hi THEN 0
    ELSE LET mid == (lo + hi) \div 2
         IN IF table[mid][1] = key THEN mid
            ELSE IF table[mid][1] < key
                 THEN BinarySearchStopsAtOne(table, key, mid + 1, hi)
            ELSE BinarySearchStopsAtOne(table, key, lo, mid - 1)

\* slice::binary_search_by over the keys of the table: the index of key, or 0.
RECURSIVE BinarySearch(_, _, _, _)
BinarySearch(table, key, lo, hi) ==
    IF lo > hi THEN 0
    ELSE LET mid == (lo + hi) \div 2
         IN IF table[mid][1] = key THEN mid
            ELSE IF table[mid][1] < key
                 THEN BinarySearch(table, key, mid + 1, hi)
            ELSE BinarySearch(table, key, lo, mid - 1)

\* char::from_u32: None for a surrogate and for a value past U+10FFFF.
char_from_u32(u) ==
    IF u \in 55296..57343 \/ u > 1114111 THEN None ELSE Some(u)

unwrap_or(opt, default) == IF opt = None THEN default ELSE opt[1]

to_titlecase(c) ==
    LET index == BinarySearch(SORTED_TITLECASE_MAPPING, c, 1,
                              Len(SORTED_TITLECASE_MAPPING))
    IN IF index # 0
       THEN LET chars == SORTED_TITLECASE_MAPPING[index][2]
            IN <<unwrap_or(char_from_u32(chars[1]), c),
                 unwrap_or(char_from_u32(chars[2]), 0),
                 unwrap_or(char_from_u32(chars[3]), 0)>>
       ELSE <<c, 0, 0>>

\* A CaseMappingIter is the sequence of the chars its variant holds:
\* Three(a, b, c) is <<a, b, c>>, Two(b, c) is <<b, c>>, One(c) is <<c>> and
\* Zero is <<>>.

\* Mutant: the slots are read up to the first '\0'.
CaseMappingIterNewStopsAtFirstSentinel(chars) ==
    IF chars[2] = 0 THEN <<chars[1]>>
    ELSE IF chars[3] = 0 THEN <<chars[1], chars[2]>>
    ELSE <<chars[1], chars[2], chars[3]>>

\* CaseMappingIter::new: the chars an iterator over the three slots yields.
CaseMappingIterNew(chars) ==
    IF chars[3] = 0
    THEN IF chars[2] = 0 THEN <<chars[1]>> ELSE <<chars[1], chars[2]>>
    ELSE <<chars[1], chars[2], chars[3]>>

\* CaseMappingIter::next: the iterator it leaves and the item it returns.
CaseMappingIterNext(self) ==
    CASE Len(self) = 3 -> [iter |-> <<self[2], self[3]>>, item |-> Some(self[1])]
      [] Len(self) = 2 -> [iter |-> <<self[2]>>, item |-> Some(self[1])]
      [] Len(self) = 1 -> [iter |-> <<>>, item |-> Some(self[1])]
      [] Len(self) = 0 -> [iter |-> self, item |-> None]

CaseMappingIterSizeHint(self) ==
    LET size == CASE Len(self) = 3 -> 3
                  [] Len(self) = 2 -> 2
                  [] Len(self) = 1 -> 1
                  [] Len(self) = 0 -> 0
    IN <<size, Some(size)>>

\* Mutant: from Three the variant left holds the last two chars, as in
\* next().
CaseMappingIterNextBackKeepsTail(self) ==
    CASE Len(self) = 3 -> [iter |-> <<self[2], self[3]>>, item |-> Some(self[3])]
      [] Len(self) = 2 -> [iter |-> <<self[1]>>, item |-> Some(self[2])]
      [] Len(self) = 1 -> [iter |-> <<>>, item |-> Some(self[1])]
      [] Len(self) = 0 -> [iter |-> self, item |-> None]

CaseMappingIterNextBack(self) ==
    CASE Len(self) = 3 -> [iter |-> <<self[1], self[2]>>, item |-> Some(self[3])]
      [] Len(self) = 2 -> [iter |-> <<self[1]>>, item |-> Some(self[2])]
      [] Len(self) = 1 -> [iter |-> <<>>, item |-> Some(self[1])]
      [] Len(self) = 0 -> [iter |-> self, item |-> None]

\* <char as Titlecase>::to_titlecase
ToTitlecase(ch) == CaseMappingIterNew(to_titlecase(ch))

----------------------------------------------------------------------------
\* The full-Unicode iterators.  next() returns the iterator it leaves, the
\* item it yields, whether the call panicked and the arm of next() taken.
\* The three iterators share the text of their arms; f names the field that
\* holds the pending expansion ("lowercase", "uppercase" or "case_iter").

\* Mutant: byte 0 is staged again although it is returned right away.
StagedRangeFromZero(len) == [start |-> 0, end |-> len]

\* The range 1..len staged after byte 0 of a unit of len bytes is returned.
StagedRange(len) == [start |-> 1, end |-> len]

\* Range::next() found an index: return the staged byte at it.
StagedArm(self) ==
    LET idx == self.next_range.start
    IN [iter |-> [self EXCEPT !.next_range.start = idx + 1],
        item |-> IF idx < UTF_8_CHAR_MAX_BYTES
                 THEN Some(self.next_bytes[idx + 1]) ELSE None,
        panic |-> idx >= UTF_8_CHAR_MAX_BYTES,
        arm |-> "staged"]

\* The pending expansion has a next char: encode and stage it.
PendingArm(self, f) ==
    LET ch == Head(self[f][1])
        enc == EncodeUtf8(ch)
    IN [iter |-> [self EXCEPT
                    ![f] = Some(Tail(self[f][1])),
                    !.next_bytes = WriteBytes(self.next_bytes, enc),
                    !.next_range = StagedRange(Len(enc))],
        item |-> Some(enc[1]), panic |-> FALSE, arm |-> "pending"]

\* Mutant: at the end of input the staged range is rewound over the buffer.
EndArmRestages(self, f) ==
    [iter |-> [self EXCEPT ![f] = None,
                           !.next_range = [start |-> 0, end |-> 1]],
     item |-> None, panic |-> FALSE, arm |-> "end"]

\* decode_utf8 returned (_, 0).
EndArm(self, f) ==
    [iter |-> [self EXCEPT ![f] = None],
     item |-> None, panic |-> FALSE, arm |-> "end"]

\* Mutant: the staged range always runs to the end of the staging buffer.
ValidArmStagesWholeBuffer(self, f, size, chars) ==
    IF size > Len(self.slice) \/ chars = <<>>
    THEN [iter |-> self, item |-> None, panic |-> TRUE, arm |-> "valid"]
    ELSE LET enc == EncodeUtf8(Head(chars))
         IN [iter |-> [self EXCEPT
                         !.slice = SubSeq(self.slice, size + 1,
                                          Len(self.slice)),
                         !.next_bytes = WriteBytes(self.next_bytes, enc),
                         !.next_range = StagedRange(UTF_8_CHAR_MAX_BYTES),
                         ![f] = Some(Tail(chars))],
             item |-> Some(enc[1]), panic |-> FALSE, arm |-> "valid"]

\* decode_utf8 returned (Some(ch), size); chars is the mapping of ch.
ValidArm(self, f, size, chars) ==
    IF size > Len(self.slice) \/ chars = <<>>
    THEN [iter |-> self, item |-> None, panic |-> TRUE, arm |-> "valid"]
    ELSE LET enc == EncodeUtf8(Head(chars))
         IN [iter |-> [self EXCEPT
                         !.slice = SubSeq(self.slice, size + 1,
                                          Len(self.slice)),
                         !.next_bytes = WriteBytes(self.next_bytes, enc),
                         !.next_range = StagedRange(Len(enc)),
                         ![f] = Some(Tail(chars))],
             item |-> Some(enc[1]), panic |-> FALSE, arm |-> "valid"]

\* Mutant: the raw bytes are not copied into the staging buffer.
InvalidArmNoCopy(self, f, size) ==
    IF size > Len(self.slice) \/ size > UTF_8_CHAR_MAX_BYTES
    THEN [iter |-> self, item |-> None, panic |-> TRUE, arm |-> "invalid"]
    ELSE [iter |-> [self EXCEPT
                      !.slice = SubSeq(self.slice, size + 1, Len(self.slice)),
                      ![f] = None,
                      !.next_range = StagedRange(size)],
          item |-> Some(self.next_bytes[1]), panic |-> FALSE,
          arm |-> "invalid"]

\* Mutant: the whole invalid run is staged but the cursor moves by one byte.
InvalidArmAdvancesOneByte(self, f, size) ==
    IF size > Len(self.slice) \/ size > UTF_8_CHAR_MAX_BYTES
    THEN [iter |-> self, item |-> None, panic |-> TRUE, arm |-> "invalid"]
    ELSE LET bytes == SubSeq(self.slice, 1, size)
             buf == WriteBytes(self.next_bytes, bytes)
         IN [iter |-> [self EXCEPT
                         !.slice = Tail(self.slice),
                         ![f] = None,
                         !.next_bytes = buf,
                         !.next_range = StagedRange(Len(bytes))],
             item |-> Some(buf[1]), panic |-> FALSE, arm |-> "invalid"]

\* decode_utf8 returned (None, size), size > 0: stage the raw bytes.
InvalidArm(self, f, size) ==
    IF size > Len(self.slice) \/ size > UTF_8_CHAR_MAX_BYTES
    THEN [iter |-> self, item |-> None, panic |-> TRUE, arm |-> "invalid"]
    ELSE LET bytes == SubSeq(self.slice, 1, size)
             buf == WriteBytes(self.next_bytes, bytes)
         IN [iter |-> [self EXCEPT
                         !.slice = SubSeq(self.slice, size + 1,
                                          Len(self.slice)),
                         ![f] = None,
                         !.next_bytes = buf,
                         !.next_range = StagedRange(Len(bytes))],
             item |-> Some(buf[1]), panic |-> FALSE, arm |-> "invalid"]

FullLowercaseWithSlice(slice) ==
    [slice |-> slice,
     next_bytes |-> [i \in 1..UTF_8_CHAR_MAX_BYTES |-> 0],
     next_range |-> [start |-> 0, end |-> 0],
     lowercase |-> None]

FullLowercaseNext(self) ==
    IF self.next_range.start < self.next_range.end
    THEN StagedArm(self)
    ELSE IF self.lowercase # None /\ self.lowercase[1] # <<>>
    THEN PendingArm(self, "lowercase")
    ELSE LET d == DecodeUtf8(self.slice)
         IN IF d.size = 0 THEN EndArm(self, "lowercase")
            ELSE IF d.ch # None
            THEN ValidArm(self, "lowercase", d.size, ToLowercase(d.ch[1]))
            ELSE InvalidArm(self, "lowercase", d.size)

FullLowercaseSizeHint(self) ==
    IF self.slice = <<>> THEN <<0, Some(0)>>
    ELSE IF is_ascii(self.slice)
    THEN <<Len(self.slice), Some(Len(self.slice))>>
    ELSE <<Len(self.slice),
           Some(Len(self.slice) * TO_LOWER_EXPAND * UTF_8_CHAR_MAX_BYTES)>>

\* Iterator::fold(0, |acc, _| acc + 1): the number of Some items next()
\* yields before its first None; panic when a next() call panics.
RECURSIVE FullLowercaseFold(_, _)
FullLowercaseFold(self, acc) ==
    LET r == FullLowercaseNext(self)
    IN IF r.panic THEN [count |-> acc, panic |-> TRUE]
       ELSE IF r.item = None THEN [count |-> acc, panic |-> FALSE]
       ELSE FullLowercaseFold(r.iter, acc + 1)

FullLowercaseCount(self) ==
    IF self.slice = <<>> THEN [count |-> 0, panic |-> FALSE]
    ELSE IF is_ascii(self.slice)
    THEN [count |-> Len(self.slice), panic |-> FALSE]
    ELSE FullLowercaseFold(self, 0)

FullUppercaseWithSlice(slice) ==
    [slice |-> slice,
     next_bytes |-> [i \in 1..UTF_8_CHAR_MAX_BYTES |-> 0],
     next_range |-> [start |-> 0, end |-> 0],
     uppercase |-> None]

\* Mutant: next() gives up as soon as the input cursor is empty, before it
\* drains what is staged or pending.
FullUppercaseNextEarlyExit(self) ==
    IF self.slice = <<>> THEN EndArm(self, "uppercase")
    ELSE IF self.next_range.start < self.next_range.end
    THEN StagedArm(self)
    ELSE IF self.uppercase # None /\ self.uppercase[1] # <<>>
    THEN PendingArm(self, "uppercase")
    ELSE LET d == DecodeUtf8(self.slice)
         IN IF d.size = 0 THEN EndArm(self, "uppercase")
            ELSE IF d.ch # None
            THEN ValidArm(self, "uppercase", d.size, ToUppercase(d.ch[1]))
            ELSE InvalidArm(self, "uppercase", d.size)

\* Mutant: the pending expansion is looked at before the staged range.
FullUppercaseNextPendingFirst(self) ==
    IF self.uppercase # None /\ self.uppercase[1] # <<>>
    THEN PendingArm(self, "uppercase")
    ELSE IF self.next_range.start < self.next_range.end
    THEN StagedArm(self)
    ELSE LET d == DecodeUtf8(self.slice)
         IN IF d.size = 0 THEN EndArm(self, "uppercase")
            ELSE IF d.ch # None
            THEN ValidArm(self, "uppercase", d.size, ToUppercase(d.ch[1]))
            ELSE InvalidArm(self, "uppercase", d.size)

FullUppercaseNext(self) ==
    IF self.next_range.start < self.next_range.end
    THEN StagedArm(self)
    ELSE IF self.uppercase # None /\ self.uppercase[1] # <<>>
    THEN PendingArm(self, "uppercase")
    ELSE LET d == DecodeUtf8(self.slice)
         IN IF d.size = 0 THEN EndArm(self, "uppercase")
            ELSE IF d.ch # None
            THEN ValidArm(self, "uppercase", d.size, ToUppercase(d.ch[1]))
            ELSE InvalidArm(self, "uppercase", d.size)

FullUppercaseSizeHint(self) ==
    IF self.slice = <<>> THEN <<0, Some(0)>>
    ELSE IF is_ascii(self.slice)
    THEN <<Len(self.slice), Some(Len(self.slice))>>
    ELSE <<Len(self.slice),
           Some(Len(self.slice) * TO_UPPER_EXPAND * UTF_8_CHAR_MAX_BYTES)>>

\* Iterator::fold(0, |acc, _| acc + 1): the number of Some items next()
\* yields before its first None; panic when a next() call panics.
RECURSIVE FullUppercaseFold(_, _)
FullUppercaseFold(self, acc) ==
    LET r == FullUppercaseNext(self)
    IN IF r.panic THEN [count |-> acc, panic |-> TRUE]
       ELSE IF r.item = None THEN [count |-> acc, panic |-> FALSE]
       ELSE FullUppercaseFold(r.iter, acc + 1)

\* Mutant: count() takes the remaining length for the count on every slice.
FullUppercaseCountByLen(self) ==
    [count |-> Len(self.slice), panic |-> FALSE]

FullUppercaseCount(self) ==
    IF self.slice = <<>> THEN [count |-> 0, panic |-> FALSE]
    ELSE IF is_ascii(self.slice)
    THEN [count |-> Len(self.slice), panic |-> FALSE]
    ELSE FullUppercaseFold(self, 0)

FullTitlecaseWithSlice(slice) ==
    [slice |-> slice,
     next_bytes |-> [i \in 1..UTF_8_CHAR_MAX_BYTES |-> 0],
     next_range |-> [start |-> 0, end |-> 0],
     case_iter |-> None,
     beginning |-> TRUE]

\* Mutant: the beginning flag is never cleared.
FullTitlecaseNextKeepsBeginning(self) ==
    IF self.next_range.start < self.next_range.end
    THEN StagedArm(self)
    ELSE IF self.case_iter # None /\ self.case_iter[1] # <<>>
    THEN PendingArm(self, "case_iter")
    ELSE LET d == DecodeUtf8(self.slice)
         IN IF d.size = 0 THEN EndArm(self, "case_iter")
            ELSE IF d.ch # None
            THEN ValidArm(self, "case_iter", d.size, ToTitlecase(d.ch[1]))
            ELSE InvalidArm(self, "case_iter", d.size)

\* Mutant: the decode of an invalid run clears the beginning flag too.
FullTitlecaseNextInvalidClearsBeginning(self) ==
    IF self.next_range.start < self.next_range.end
    THEN StagedArm(self)
    ELSE IF self.case_iter # None /\ self.case_iter[1] # <<>>
    THEN PendingArm(self, "case_iter")
    ELSE LET d == DecodeUtf8(self.slice)
         IN IF d.size = 0 THEN EndArm(self, "case_iter")
            ELSE IF d.ch # None
            THEN IF self.beginning
                 THEN LET r == ValidArm(self, "case_iter", d.size,
                                        ToTitlecase(d.ch[1]))
                      IN IF r.panic THEN r
                         ELSE [r EXCEPT !.iter.beginning = FALSE]
                 ELSE ValidArm(self, "case_iter", d.size, ToLowercase(d.ch[1]))
            ELSE LET r == InvalidArm(self, "case_iter", d.size)
                 IN IF r.panic THEN r ELSE [r EXCEPT !.iter.beginning = FALSE]

FullTitlecaseNext(self) ==
    IF self.next_range.start < self.next_range.end
    THEN StagedArm(self)
    ELSE IF self.case_iter # None /\ self.case_iter[1] # <<>>
    THEN PendingArm(self, "case_iter")
    ELSE LET d == DecodeUtf8(self.slice)
         IN IF d.size = 0 THEN EndArm(self, "case_iter")
            ELSE IF d.ch # None
            THEN IF self.beginning
                 THEN LET r == ValidArm(self, "case_iter", d.size,
                                        ToTitlecase(d.ch[1]))
                      IN IF r.panic THEN r
                         ELSE [r EXCEPT !.iter.beginning = FALSE]
                 ELSE ValidArm(self, "case_iter", d.size, ToLowercase(d.ch[1]))
            ELSE InvalidArm(self, "case_iter", d.size)

\* Mutant: the upper bound counts codepoints, not their UTF-8 bytes.
FullTitlecaseSizeHintInCodepoints(self) ==
    IF self.slice = <<>> THEN <<0, Some(0)>>
    ELSE IF is_ascii(self.slice)
    THEN <<Len(self.slice), Some(Len(self.slice))>>
    ELSE <<Len(self.slice), Some(Len(self.slice) * TO_LOWER_OR_TITLE_EXPAND)>>

FullTitlecaseSizeHint(self) ==
    IF self.slice = <<>> THEN <<0, Some(0)>>
    ELSE IF is_ascii(self.slice)
    THEN <<Len(self.slice), Some(Len(self.slice))>>
    ELSE <<Len(self.slice),
           Some(Len(self.slice) * TO_LOWER_OR_TITLE_EXPAND * UTF_8_CHAR_MAX_BYTES)>>

\* Iterator::fold(0, |acc, _| acc + 1): the number of Some items next()
\* yields before its first None; panic when a next() call panics.
RECURSIVE FullTitlecaseFold(_, _)
FullTitlecaseFold(self, acc) ==
    LET r == FullTitlecaseNext(self)
    IN IF r.panic THEN [count |-> acc, panic |-> TRUE]
       ELSE IF r.item = None THEN [count |-> acc, panic |-> FALSE]
       ELSE FullTitlecaseFold(r.iter, acc + 1)

FullTitlecaseCount(self) ==
    IF self.slice = <<>> THEN [count |-> 0, panic |-> FALSE]
    ELSE IF is_ascii(self.slice)
    THEN [count |-> Len(self.slice), panic |-> FALSE]
    ELSE FullTitlecaseFold(self, 0)

----------------------------------------------------------------------------
\* The ASCII iterators.

AsciiLowercaseWithSlice(slice) == [slice |-> slice]

\* Mutant: a byte outside ASCII is skipped together with the byte after it.
AsciiLowercaseNextSkipping(self) ==
    IF self.slice = <<>>
    THEN [iter |-> self, item |-> None, panic |-> FALSE, arm |-> "ascii_end"]
    ELSE IF Head(self.slice) >= 128 /\ Len(self.slice) >= 2
    THEN [iter |-> [self EXCEPT !.slice = Tail(Tail(self.slice))],
          item |-> Some(to_ascii_lowercase(self.slice[2])),
          panic |-> FALSE, arm |-> "ascii"]
    ELSE [iter |-> [self EXCEPT !.slice = Tail(self.slice)],
          item |-> Some(to_ascii_lowercase(Head(self.slice))),
          panic |-> FALSE, arm |-> "ascii"]

AsciiLowercaseNext(self) ==
    IF self.slice = <<>>
    THEN [iter |-> self, item |-> None, panic |-> FALSE, arm |-> "ascii_end"]
    ELSE [iter |-> [self EXCEPT !.slice = Tail(self.slice)],
          item |-> Some(to_ascii_lowercase(Head(self.slice))),
          panic |-> FALSE, arm |-> "ascii"]

\* Mutant: next_back() splits the slice at its first byte, as next() does.
AsciiLowercaseNextBackSplitsFirst(self) ==
    IF self.slice = <<>>
    THEN [iter |-> self, item |-> None, panic |-> FALSE, arm |-> "ascii_end"]
    ELSE [iter |-> [self EXCEPT !.slice = Tail(self.slice)],
          item |-> Some(to_ascii_lowercase(Head(self.slice))),
          panic |-> FALSE, arm |-> "ascii_back"]

AsciiLowercaseNextBack(self) ==
    IF self.slice = <<>>
    THEN [iter |-> self, item |-> None, panic |-> FALSE, arm |-> "ascii_end"]
    ELSE [iter |-> [self EXCEPT
                       !.slice = SubSeq(self.slice, 1, Len(self.slice) - 1)],
          item |-> Some(to_ascii_lowercase(self.slice[Len(self.slice)])),
          panic |-> FALSE, arm |-> "ascii_back"]

AsciiLowercaseSizeHint(self) == <<Len(self.slice), Some(Len(self.slice))>>

AsciiLowercaseCount(self) == [count |-> Len(self.slice), panic |-> FALSE]

AsciiUppercaseWithSlice(slice) == [slice |-> slice]

\* Mutant: the case bit of every letter is flipped.
AsciiUppercaseNextToggles(self) ==
    IF self.slice = <<>>
    THEN [iter |-> self, item |-> None, panic |-> FALSE, arm |-> "ascii_end"]
    ELSE LET byte == Head(self.slice)
         IN [iter |-> [self EXCEPT !.slice = Tail(self.slice)],
             item |-> IF byte \in 65..90 THEN Some(byte + 32)
                      ELSE Some(to_ascii_uppercase(byte)),
             panic |-> FALSE, arm |-> "ascii"]

\* Mutant: the uppercase iterator maps with the lowercase method.
AsciiUppercaseNextLowercases(self) ==
    IF self.slice = <<>>
    THEN [iter |-> self, item |-> None, panic |-> FALSE, arm |-> "ascii_end"]
    ELSE [iter |-> [self EXCEPT !.slice = Tail(self.slice)],
          item |-> Some(to_ascii_lowercase(Head(self.slice))),
          panic |-> FALSE, arm |-> "ascii"]

AsciiUppercaseNext(self) ==
    IF self.slice = <<>>
    THEN [iter |-> self, item |-> None, panic |-> FALSE, arm |-> "ascii_end"]
    ELSE [iter |-> [self EXCEPT !.slice = Tail(self.slice)],
          item |-> Some(to_ascii_uppercase(Head(self.slice))),
          panic |-> FALSE, arm |-> "ascii"]

AsciiUppercaseNextBack(self) ==
    IF self.slice = <<>>
    THEN [iter |-> self, item |-> None, panic |-> FALSE, arm |-> "ascii_end"]
    ELSE [iter |-> [self EXCEPT
                       !.slice = SubSeq(self.slice, 1, Len(self.slice) - 1)],
          item |-> Some(to_ascii_uppercase(self.slice[Len(self.slice)])),
          panic |-> FALSE, arm |-> "ascii_back"]

AsciiUppercaseSizeHint(self) == <<Len(self.slice), Some(Len(self.slice))>>

AsciiUppercaseCount(self) == [count |-> Len(self.slice), panic |-> FALSE]

AsciiTitlecaseWithSlice(slice) == [slice |-> slice, first |-> TRUE]

\* Mutant: first is cleared by the first letter, not by the first byte.
AsciiTitlecaseNextFirstLetter(self) ==
    IF self.slice = <<>>
    THEN [iter |-> self, item |-> None, panic |-> FALSE, arm |-> "ascii_end"]
    ELSE LET byte == Head(self.slice)
             letter == byte \in 65..90 \/ byte \in 97..122
         IN [iter |-> [slice |-> Tail(self.slice),
                       first |-> self.first /\ ~letter],
             item |-> IF self.first
                      THEN Some(to_ascii_uppercase(byte))
                      ELSE Some(to_ascii_lowercase(byte)),
             panic |-> FALSE, arm |-> "ascii"]

AsciiTitlecaseNext(self) ==
    IF self.slice = <<>>
    THEN [iter |-> self, item |-> None, panic |-> FALSE, arm |-> "ascii_end"]
    ELSE [iter |-> [slice |-> Tail(self.slice), first |-> FALSE],
          item |-> IF self.first
                   THEN Some(to_ascii_uppercase(Head(self.slice)))
                   ELSE Some(to_ascii_lowercase(Head(self.slice))),
          panic |-> FALSE, arm |-> "ascii"]

\* Mutant: the last remaining byte is uppercased only while first is set,
\* that is, only when it is s[0].
AsciiTitlecaseNextBackHonoursFirst(self) ==
    IF self.slice = <<>>
    THEN [iter |-> self, item |-> None, panic |-> FALSE, arm |-> "ascii_end"]
    ELSE LET byte == self.slice[Len(self.slice)]
             remainder == SubSeq(self.slice, 1, Len(self.slice) - 1)
         IN [iter |-> [self EXCEPT !.slice = remainder],
             item |-> IF remainder = <<>> /\ self.first
                      THEN Some(to_ascii_uppercase(byte))
                      ELSE Some(to_ascii_lowercase(byte)),
             panic |-> FALSE, arm |-> "ascii_back"]

\* The byte is uppercased when the remainder is empty; first is left as is.
AsciiTitlecaseNextBack(self) ==
    IF self.slice = <<>>
    THEN [iter |-> self, item |-> None, panic |-> FALSE, arm |-> "ascii_end"]
    ELSE LET byte == self.slice[Len(self.slice)]
             remainder == SubSeq(self.slice, 1, Len(self.slice) - 1)
         IN [iter |-> [self EXCEPT !.slice = remainder],
             item |-> IF remainder = <<>>
                      THEN Some(to_ascii_uppercase(byte))
                      ELSE Some(to_ascii_lowercase(byte)),
             panic |-> FALSE, arm |-> "ascii_back"]

\* Mutant: the lower bound is left at 0.
AsciiTitlecaseSizeHintNoLowerBound(self) == <<0, Some(Len(self.slice))>>

AsciiTitlecaseSizeHint(self) == <<Len(self.slice), Some(Len(self.slice))>>

AsciiTitlecaseCount(self) == [count |-> Len(self.slice), panic |-> FALSE]

----------------------------------------------------------------------------
\* The slice functions of the ascii module.

\* [u8]::make_ascii_lowercase / make_ascii_uppercase (in place) and
\* [u8]::to_ascii_lowercase (a copy): every byte by the u8 method.
slice_make_ascii_lowercase(s) == [i \in 1..Len(s) |-> to_ascii_lowercase(s[i])]
slice_make_ascii_uppercase(s) == [i \in 1..Len(s) |-> to_ascii_uppercase(s[i])]
slice_to_ascii_lowercase(s) == [i \in 1..Len(s) |-> to_ascii_lowercase(s[i])]
slice_to_ascii_uppercase(s) == [i \in 1..Len(s) |-> to_ascii_uppercase(s[i])]

\* roe::make_ascii_lowercase, roe::to_ascii_lowercase
ascii_make_ascii_lowercase(slice) == slice_make_ascii_lowercase(slice)
ascii_to_ascii_lowercase(slice) == slice_to_ascii_lowercase(slice)

\* roe::make_ascii_uppercase, roe::to_ascii_uppercase
ascii_make_ascii_uppercase(slice) == slice_make_ascii_uppercase(slice)
ascii_to_ascii_uppercase(slice) == slice_to_ascii_uppercase(slice)

\* roe::make_ascii_titlecase: split_first_mut, head up, tail down.
ascii_make_ascii_titlecase(slice) ==
    IF slice = <<>> THEN slice
    ELSE <<to_ascii_uppercase(Head(slice))>>
         \o slice_make_ascii_lowercase(Tail(slice))

\* Mutant: the first byte is uppercased before the copy is lowercased.
ascii_to_ascii_titlecase_upper_first(slice) ==
    LET titlecase == IF slice = <<>> THEN slice
                     ELSE [slice EXCEPT ![1] = to_ascii_uppercase(slice[1])]
    IN slice_to_ascii_lowercase(titlecase)

\* roe::to_ascii_titlecase: a lowercased copy whose first byte is then
\* uppercased.
ascii_to_ascii_titlecase(slice) ==
    LET titlecase == slice_to_ascii_lowercase(slice)
    IN IF titlecase = <<>> THEN titlecase
       ELSE [titlecase EXCEPT ![1] = to_ascii_uppercase(titlecase[1])]

----------------------------------------------------------------------------
\* The facade iterators: an Inner tag and the concrete iterator under it.

Empty == [tag |-> "Empty"]
Full(iter) == [tag |-> "Full", iter |-> iter]
Ascii(iter) == [tag |-> "Ascii", iter |-> iter]
\* The value a constructor that panicked leaves: no iterator.
Panic == [tag |-> "Panic"]

\* The facade's view of an inner next(): the inner iterator wrapped again.
Wrap(tag, r) == [r EXCEPT !.iter = [tag |-> tag, iter |-> r.iter]]

LowercaseNew == Empty
LowercaseWithSlice(slice) == Full(FullLowercaseWithSlice(slice))
LowercaseWithAsciiSlice(slice) == Ascii(AsciiLowercaseWithSlice(slice))

LowercaseNext(self) ==
    CASE self.tag = "Empty" ->
           [iter |-> self, item |-> None, panic |-> FALSE, arm |-> "empty"]
      [] self.tag = "Full" -> Wrap("Full", FullLowercaseNext(self.iter))
      [] self.tag = "Ascii" -> Wrap("Ascii", AsciiLowercaseNext(self.iter))

LowercaseSizeHint(self) ==
    CASE self.tag = "Empty" -> <<0, Some(0)>>
      [] self.tag = "Full" -> FullLowercaseSizeHint(self.iter)
      [] self.tag = "Ascii" -> AsciiLowercaseSizeHint(self.iter)

LowercaseCount(self) ==
    CASE self.tag = "Empty" -> [count |-> 0, panic |-> FALSE]
      [] self.tag = "Full" -> FullLowercaseCount(self.iter)
      [] self.tag = "Ascii" -> AsciiLowercaseCount(self.iter)

UppercaseNew == Empty
UppercaseWithSlice(slice) == Full(FullUppercaseWithSlice(slice))
UppercaseWithAsciiSlice(slice) == Ascii(AsciiUppercaseWithSlice(slice))

UppercaseNext(self) ==
    CASE self.tag = "Empty" ->
           [iter |-> self, item |-> None, panic |-> FALSE, arm |-> "empty"]
      [] self.tag = "Full" -> Wrap("Full", FullUppercaseNext(self.iter))
      [] self.tag = "Ascii" -> Wrap("Ascii", AsciiUppercaseNext(self.iter))

UppercaseSizeHint(self) ==
    CASE self.tag = "Empty" -> <<0, Some(0)>>
      [] self.tag = "Full" -> FullUppercaseSizeHint(self.iter)
      [] self.tag = "Ascii" -> AsciiUppercaseSizeHint(self.iter)

UppercaseCount(self) ==
    CASE self.tag = "Empty" -> [count |-> 0, panic |-> FALSE]
      [] self.tag = "Full" -> FullUppercaseCount(self.iter)
      [] self.tag = "Ascii" -> AsciiUppercaseCount(self.iter)

TitlecaseNew == Empty
TitlecaseWithSlice(slice) == Full(FullTitlecaseWithSlice(slice))
TitlecaseWithAsciiSlice(slice) == Ascii(AsciiTitlecaseWithSlice(slice))

TitlecaseNext(self) ==
    CASE self.tag = "Empty" ->
           [iter |-> self, item |-> None, panic |-> FALSE, arm |-> "empty"]
      [] self.tag = "Full" -> Wrap("Full", FullTitlecaseNext(self.iter))
      [] self.tag = "Ascii" -> Wrap("Ascii", AsciiTitlecaseNext(self.iter))

TitlecaseSizeHint(self) ==
    CASE self.tag = "Empty" -> <<0, Some(0)>>
      [] self.tag = "Full" -> FullTitlecaseSizeHint(self.iter)
      [] self.tag = "Ascii" -> AsciiTitlecaseSizeHint(self.iter)

TitlecaseCount(self) ==
    CASE self.tag = "Empty" -> [count |-> 0, panic |-> FALSE]
      [] self.tag = "Full" -> FullTitlecaseCount(self.iter)
      [] self.tag = "Ascii" -> AsciiTitlecaseCount(self.iter)

----------------------------------------------------------------------------
\* The crate's entry points: the iterator for a slice and a mode.

LowercaseModes == {"Full", "Ascii", "Turkic", "Lithuanian", "Fold"}
UppercaseModes == {"Full", "Ascii", "Turkic", "Lithuanian"}
TitlecaseModes == {"Full", "Ascii", "Turkic", "Lithuanian"}

\* Mutant: the unimplemented modes fall back to the full mapping.
lowercaseFallsBackToFull(slice, options) ==
    CASE options \in {"Full", "Lithuanian", "Turkic", "Fold"} ->
           LowercaseWithSlice(slice)
      [] options = "Ascii" -> LowercaseWithAsciiSlice(slice)

lowercase(slice, options) ==
    CASE options \in {"Full", "Lithuanian"} -> LowercaseWithSlice(slice)
      [] options = "Ascii" -> LowercaseWithAsciiSlice(slice)
      [] options = "Turkic" -> Panic
      [] options = "Fold" -> Panic

\* Mutant: Lithuanian is dispatched to the ASCII iterator.
uppercaseLithuanianAsAscii(slice, options) ==
    CASE options = "Full" -> UppercaseWithSlice(slice)
      [] options \in {"Ascii", "Lithuanian"} -> UppercaseWithAsciiSlice(slice)
      [] options = "Turkic" -> Panic

uppercase(slice, options) ==
    CASE options \in {"Full", "Lithuanian"} -> UppercaseWithSlice(slice)
      [] options = "Ascii" -> UppercaseWithAsciiSlice(slice)
      [] options = "Turkic" -> Panic

titlecase(slice, options) ==
    CASE options \in {"Full", "Lithuanian"} -> TitlecaseWithSlice(slice)
      [] options = "Ascii" -> TitlecaseWithAsciiSlice(slice)
      [] options = "Turkic" -> Panic

----------------------------------------------------------------------------
\* The mode selectors' conversions from a token.

\* The byte string literals the conversions match on.
B_ascii == <<97, 115, 99, 105, 105>>
B_turkic == <<116, 117, 114, 107, 105, 99>>
B_lithuanian == <<108, 105, 116, 104, 117, 97, 110, 105, 97, 110>>
B_fold == <<102, 111, 108, 100>>

\* A &str is its UTF-8 bytes under a type of its own.
Str(bytes) == [utf8 |-> bytes]
as_bytes(s) == s.utf8
\* Option::map(str::as_bytes)
OptionMap(value) == IF value = None THEN None ELSE Some(as_bytes(value[1]))

Ok(mode) == [ok |-> TRUE, val |-> mode]
Err(e) == [ok |-> FALSE, val |-> e]
InvalidCaseMappingModeNew == "InvalidCaseMappingMode"
message(e) == "invalid option"

LowercaseModeDefault == "Full"

\* TryFrom<&[u8]>
LowercaseModeTryFromBytes(value) ==
    CASE value = B_ascii -> Ok("Ascii")
      [] value = B_turkic -> Ok("Turkic")
      [] value = B_lithuanian -> Ok("Lithuanian")
      [] value = B_fold -> Ok("Fold")
      [] OTHER -> Err(InvalidCaseMappingModeNew)

\* TryFrom<Option<&[u8]>>
LowercaseModeTryFromOptionBytes(value) ==
    CASE value = None -> Ok("Full")
      [] value = Some(B_ascii) -> Ok("Ascii")
      [] value = Some(B_turkic) -> Ok("Turkic")
      [] value = Some(B_lithuanian) -> Ok("Lithuanian")
      [] value = Some(B_fold) -> Ok("Fold")
      [] OTHER -> Err(InvalidCaseMappingModeNew)

\* TryFrom<&str>, TryFrom<Option<&str>>, FromStr
LowercaseModeTryFromStr(value) == LowercaseModeTryFromBytes(as_bytes(value))
LowercaseModeTryFromOptionStr(value) ==
    LowercaseModeTryFromOptionBytes(OptionMap(value))
LowercaseModeFromStr(s) == LowercaseModeTryFromStr(s)

UppercaseModeDefault == "Full"

\* TryFrom<&[u8]>
UppercaseModeTryFromBytes(value) ==
    CASE value = B_ascii -> Ok("Ascii")
      [] value = B_turkic -> Ok("Turkic")
      [] value = B_lithuanian -> Ok("Lithuanian")
      [] OTHER -> Err(InvalidCaseMappingModeNew)

\* TryFrom<Option<&[u8]>>
UppercaseModeTryFromOptionBytes(value) ==
    CASE value = None -> Ok("Full")
      [] value = Some(B_ascii) -> Ok("Ascii")
      [] value = Some(B_turkic) -> Ok("Turkic")
      [] value = Some(B_lithuanian) -> Ok("Lithuanian")
      [] OTHER -> Err(InvalidCaseMappingModeNew)

\* TryFrom<&str>, TryFrom<Option<&str>>, FromStr
UppercaseModeTryFromStr(value) == UppercaseModeTryFromBytes(as_bytes(value))
UppercaseModeTryFromOptionStr(value) ==
    UppercaseModeTryFromOptionBytes(OptionMap(value))
UppercaseModeFromStr(s) == UppercaseModeTryFromStr(s)

\* Mutant: the token "full" is taken for the default mode.
TitlecaseModeTryFromBytesAcceptsFull(value) ==
    CASE value = B_ascii -> Ok("Ascii")
      [] value = B_turkic -> Ok("Turkic")
      [] value = B_lithuanian -> Ok("Lithuanian")
      [] value = <<102, 117, 108, 108>> -> Ok("Full")
      [] OTHER -> Err(InvalidCaseMappingModeNew)

\* Mutant: the titlecase selector has a Fold mode, as the lowercase one.
TitlecaseModeTryFromBytesWithFold(value) ==
    CASE value = B_ascii -> Ok("Ascii")
      [] value = B_turkic -> Ok("Turkic")
      [] value = B_lithuanian -> Ok("Lithuanian")
      [] value = B_fold -> Ok("Fold")
      [] OTHER -> Err(InvalidCaseMappingModeNew)

TitlecaseModeDefault == "Full"

\* TryFrom<&[u8]>
TitlecaseModeTryFromBytes(value) ==
    CASE value = B_ascii -> Ok("Ascii")
      [] value = B_turkic -> Ok("Turkic")
      [] value = B_lithuanian -> Ok("Lithuanian")
      [] OTHER -> Err(InvalidCaseMappingModeNew)

\* TryFrom<Option<&[u8]>>
TitlecaseModeTryFromOptionBytes(value) ==
    IF value = None THEN Ok(TitlecaseModeDefault)
    ELSE TitlecaseModeTryFromBytes(value[1])

\* TryFrom<&str>, TryFrom<Option<&str>>, FromStr
TitlecaseModeTryFromStr(value) == TitlecaseModeTryFromBytes(as_bytes(value))
TitlecaseModeTryFromOptionStr(value) ==
    TitlecaseModeTryFromOptionBytes(OptionMap(value))
TitlecaseModeFromStr(s) == TitlecaseModeTryFromStr(s)

----------------------------------------------------------------------------
\* A caller that constructs one iterator and then calls next(), size_hint()
\* and count() on it.

VARIABLES
    op,         \* "lowercase", "uppercase" or "titlecase"
    ctor,       \* "new" (the empty iterator) or "options" (slice and mode)
    options,    \* the mode handed to the entry point
    input,      \* the slice handed to the entry point
    iter,       \* the iterator, or Panic when construction panicked
    out,        \* the bytes next() has yielded so far
    ret,        \* what the latest next() returned
    arm,        \* the arm of next() the latest call took ("new": none yet)
    hint,       \* Some(result of size_hint()) called since the latest next()
    counted,    \* Some(result of count()) once count() consumed the iterator
    panicked,   \* a call panicked
    noneCalls   \* how many next() calls returned None

\* A caller of the concrete ASCII iterators (next() and next_back()) and of
\* the slice functions of the ascii module, over the slice input.
VARIABLES
    ascii,      \* the concrete ASCII iterator
    back,       \* the bytes next_back() has yielded so far, in yield order
    buf,        \* Some(the caller's buffer) once make_ascii_*case ran on it
    copy        \* Some(the vector) once to_ascii_*case returned it

\* A caller that converts a token into a mode of the selector op.
VARIABLES
    conv,       \* the conversion: the type the token is converted from
    token,      \* the token: a str, a byte slice, or None for the Options
    parsed      \* Some(the Result) once the conversion returned

\* A caller that builds one CaseMappingIter, from the three slots it hands
\* to CaseMappingIter::new or from a char by to_titlecase, and calls next()
\* and next_back() on it.
VARIABLES
    letter,             \* Some(the char handed to to_titlecase), or None
    triple,             \* Some(the [char; 3] handed to CaseMappingIter::new)
    case_mapping_iter,  \* Some(the CaseMappingIter) once it is built
    fwd,                \* the chars next() has yielded so far
    bwd,                \* the chars next_back() has yielded so far
    zeroCalls           \* how many calls of either end returned None

\* A caller of size_hint() of a full-Unicode iterator whose remaining slice
\* has a length of the size of the target's usize.
VARIABLES
    target_bits,        \* the width of usize: 32 or 64
    overflow_checks,    \* the build panics on arithmetic overflow
    remaining,          \* the remaining slice: its length and is_ascii()
    sized               \* Some(what size_hint() did) once it was called

iterVars == <<ctor, options, iter, ret, arm, hint, counted, panicked,
              noneCalls>>
asciiVars == <<ascii, back, buf, copy>>
modeVars == <<conv, token, parsed>>
charVars == <<letter, triple, case_mapping_iter, fwd, bwd, zeroCalls>>
wordVars == <<target_bits, overflow_checks, remaining, sized>>

vars == <<op, ctor, options, input, iter, out, ret, arm, hint, counted,
          panicked, noneCalls, ascii, back, buf, copy, conv, token, parsed,
          letter, triple, case_mapping_iter, fwd, bwd, zeroCalls,
          target_bits, overflow_checks, remaining, sized>>

\* The values of the variables a caller does not use.
IterVarsUnused ==
    /\ ctor = "none" /\ options = "Full" /\ iter = [tag |-> "None"]
    /\ ret = <<>> /\ arm = "new" /\ hint = <<>> /\ counted = <<>>
    /\ panicked = FALSE /\ noneCalls = 0
AsciiVarsUnused ==
    /\ ascii = [slice |-> <<>>] /\ back = <<>> /\ buf = <<>> /\ copy = <<>>
ModeVarsUnused ==
    /\ conv = "none" /\ token = <<>> /\ parsed = <<>>

CharVarsUnused ==
    /\ letter = None /\ triple = None /\ case_mapping_iter = None
    /\ fwd = <<>> /\ bwd = <<>> /\ zeroCalls = 0

WordVarsUnused ==
    /\ target_bits = 64 /\ overflow_checks = FALSE
    /\ remaining = [len |-> <<>>, ascii |-> TRUE] /\ sized = None

Ops == {"lowercase", "uppercase", "titlecase"}

ModesOf(o) ==
    CASE o = "lowercase" -> LowercaseModes
      [] o = "uppercase" -> UppercaseModes
      [] o = "titlecase" -> TitlecaseModes

Construct(o, c, slice, mode) ==
    IF c = "new"
    THEN CASE o = "lowercase" -> LowercaseNew
           [] o = "uppercase" -> UppercaseNew
           [] o = "titlecase" -> TitlecaseNew
    ELSE CASE o = "lowercase" -> lowercase(slice, mode)
           [] o = "uppercase" -> uppercase(slice, mode)
           [] o = "titlecase" -> titlecase(slice, mode)

IterNext(o, self) ==
    CASE o = "lowercase" -> LowercaseNext(self)
      [] o = "uppercase" -> UppercaseNext(self)
      [] o = "titlecase" -> TitlecaseNext(self)

IterSizeHint(o, self) ==
    CASE o = "lowercase" -> LowercaseSizeHint(self)
      [] o = "uppercase" -> UppercaseSizeHint(self)
      [] o = "titlecase" -> TitlecaseSizeHint(self)

IterCount(o, self) ==
    CASE o = "lowercase" -> LowercaseCount(self)
      [] o = "uppercase" -> UppercaseCount(self)
      [] o = "titlecase" -> TitlecaseCount(self)

Init ==
    /\ op \in Ops
    /\ ctor \in {"new", "options"}
    /\ options \in IF ctor = "new" THEN {"Full"} ELSE ModesOf(op)
    /\ input \in IF ctor = "new" THEN { <<>> } ELSE Slices
    /\ iter = Construct(op, ctor, input, options)
    /\ panicked = (iter = Panic)
    /\ out = <<>>
    /\ ret = None
    /\ arm = "new"
    /\ hint = None
    /\ counted = None
    /\ noneCalls = 0
    /\ AsciiVarsUnused
    /\ ModeVarsUnused
    /\ CharVarsUnused
    /\ WordVarsUnused

\* One call of next() on the iterator.
NextCall ==
    /\ ~panicked
    /\ counted = None
    /\ noneCalls < MaxNoneCalls
    /\ LET r == IterNext(op, iter)
       IN /\ iter' = r.iter
          /\ panicked' = r.panic
          /\ arm' = r.arm
          /\ ret' = IF r.panic THEN ret ELSE r.item
          /\ out' = IF r.panic \/ r.item = None THEN out
                    ELSE Append(out, r.item[1])
          /\ noneCalls' = IF ~r.panic /\ r.item = None
                          THEN noneCalls + 1 ELSE noneCalls
    /\ hint' = None
    /\ UNCHANGED <<op, ctor, options, input, counted, asciiVars, modeVars,
                   charVars, wordVars>>

\* One call of size_hint(), which borrows the iterator and leaves it as is.
SizeHintCall ==
    /\ ~panicked
    /\ counted = None
    /\ hint = None
    /\ hint' = Some(IterSizeHint(op, iter))
    /\ UNCHANGED <<op, ctor, options, input, iter, out, ret, arm, counted,
                   panicked, noneCalls, asciiVars, modeVars,
                   charVars, wordVars>>

\* One call of count(), which consumes the iterator.
CountCall ==
    /\ ~panicked
    /\ counted = None
    /\ LET c == IterCount(op, iter)
       IN /\ panicked' = c.panic
          /\ counted' = IF c.panic THEN None ELSE Some(c.count)
    /\ UNCHANGED <<op, ctor, options, input, iter, out, ret, arm, hint,
                   noneCalls, asciiVars, modeVars,
                   charVars, wordVars>>

Next == NextCall \/ SizeHintCall \/ CountCall

Spec == Init /\ [][Next]_vars

----------------------------------------------------------------------------
\* A caller that builds one concrete ASCII iterator over a byte slice, calls
\* next() and next_back() on it in any order, and calls the in-place and the
\* copying slice function of the same case on the same bytes.

MaxBytes == 3

\* Letters at the ends of both ranges, their outer neighbours, a high byte.
AsciiBytes == {64, 65, 90, 91, 96, 97, 122, 123, 195}

ByteSlices == UNION { [1..n -> AsciiBytes] : n \in 0..MaxBytes }

AsciiWithSlice(o, slice) ==
    CASE o = "lowercase" -> AsciiLowercaseWithSlice(slice)
      [] o = "uppercase" -> AsciiUppercaseWithSlice(slice)
      [] o = "titlecase" -> AsciiTitlecaseWithSlice(slice)

AsciiNext(o, self) ==
    CASE o = "lowercase" -> AsciiLowercaseNext(self)
      [] o = "uppercase" -> AsciiUppercaseNext(self)
      [] o = "titlecase" -> AsciiTitlecaseNext(self)

AsciiNextBack(o, self) ==
    CASE o = "lowercase" -> AsciiLowercaseNextBack(self)
      [] o = "uppercase" -> AsciiUppercaseNextBack(self)
      [] o = "titlecase" -> AsciiTitlecaseNextBack(self)

make_ascii(o, slice) ==
    CASE o = "lowercase" -> ascii_make_ascii_lowercase(slice)
      [] o = "uppercase" -> ascii_make_ascii_uppercase(slice)
      [] o = "titlecase" -> ascii_make_ascii_titlecase(slice)

to_ascii(o, slice) ==
    CASE o = "lowercase" -> ascii_to_ascii_lowercase(slice)
      [] o = "uppercase" -> ascii_to_ascii_uppercase(slice)
      [] o = "titlecase" -> ascii_to_ascii_titlecase(slice)

AsciiSizeHint(o, self) ==
    CASE o = "lowercase" -> AsciiLowercaseSizeHint(self)
      [] o = "uppercase" -> AsciiUppercaseSizeHint(self)
      [] o = "titlecase" -> AsciiTitlecaseSizeHint(self)

AsciiCount(o, self) ==
    CASE o = "lowercase" -> AsciiLowercaseCount(self)
      [] o = "uppercase" -> AsciiUppercaseCount(self)
      [] o = "titlecase" -> AsciiTitlecaseCount(self)

InitAscii ==
    /\ op \in Ops
    /\ input \in ByteSlices
    /\ ascii = AsciiWithSlice(op, input)
    /\ out = <<>>
    /\ back = <<>>
    /\ buf = None
    /\ copy = None
    /\ IterVarsUnused
    /\ ModeVarsUnused
    /\ CharVarsUnused
    /\ WordVarsUnused

\* One call of next() on the ASCII iterator.
AsciiNextCall ==
    /\ LET r == AsciiNext(op, ascii)
       IN /\ ascii' = r.iter
          /\ out' = IF r.item = None THEN out ELSE Append(out, r.item[1])
    /\ UNCHANGED <<op, input, back, buf, copy, iterVars, modeVars,
                   charVars, wordVars>>

\* One call of next_back() on the ASCII iterator.
AsciiNextBackCall ==
    /\ LET r == AsciiNextBack(op, ascii)
       IN /\ ascii' = r.iter
          /\ back' = IF r.item = None THEN back ELSE Append(back, r.item[1])
    /\ UNCHANGED <<op, input, out, buf, copy, iterVars, modeVars,
                   charVars, wordVars>>

\* make_ascii_*case on a buffer that holds the bytes of input.
MakeAsciiCall ==
    /\ buf = None
    /\ buf' = Some(make_ascii(op, input))
    /\ UNCHANGED <<op, input, ascii, out, back, copy, iterVars, modeVars,
                   charVars, wordVars>>

\* to_ascii_*case on the bytes of input.
ToAsciiCall ==
    /\ copy = None
    /\ copy' = Some(to_ascii(op, input))
    /\ UNCHANGED <<op, input, ascii, out, back, buf, iterVars, modeVars,
                   charVars, wordVars>>

NextAscii == AsciiNextCall \/ AsciiNextBackCall \/ MakeAsciiCall \/ ToAsciiCall

SpecAscii == InitAscii /\ [][NextAscii]_vars

----------------------------------------------------------------------------
\* A caller that converts one token into a mode of one selector.

Convs == {"bytes", "option_bytes", "str", "option_str", "from_str"}

\* The tokens: the four literals, "full", the empty token, other spellings
\* and near misses, and a byte string that is no UTF-8.
ByteTokens ==
    { B_ascii, B_turkic, B_lithuanian, B_fold,
      <<102, 117, 108, 108>>,
      <<>>,
      <<65, 83, 67, 73, 73>>,
      <<65, 115, 99, 105, 105>>,
      <<70, 111, 108, 100>>,
      <<84, 117, 114, 107, 105, 99>>,
      <<97, 115, 99, 105>>,
      <<102, 111, 108, 100, 115>>,
      <<32, 97, 115, 99, 105, 105>>,
      <<255>> }

StrTokens == { Str(b) : b \in { t \in ByteTokens : is_ascii(t) } }

TokensOf(c) ==
    CASE c = "bytes" -> ByteTokens
      [] c = "option_bytes" -> {None} \cup { Some(b) : b \in ByteTokens }
      [] c \in {"str", "from_str"} -> StrTokens
      [] c = "option_str" -> {None} \cup { Some(s) : s \in StrTokens }

TryFrom(o, c, value) ==
    CASE o = "lowercase" ->
           (CASE c = "bytes" -> LowercaseModeTryFromBytes(value)
              [] c = "option_bytes" -> LowercaseModeTryFromOptionBytes(value)
              [] c = "str" -> LowercaseModeTryFromStr(value)
              [] c = "option_str" -> LowercaseModeTryFromOptionStr(value)
              [] c = "from_str" -> LowercaseModeFromStr(value))
      [] o = "uppercase" ->
           (CASE c = "bytes" -> UppercaseModeTryFromBytes(value)
              [] c = "option_bytes" -> UppercaseModeTryFromOptionBytes(value)
              [] c = "str" -> UppercaseModeTryFromStr(value)
              [] c = "option_str" -> UppercaseModeTryFromOptionStr(value)
              [] c = "from_str" -> UppercaseModeFromStr(value))
      [] o = "titlecase" ->
           (CASE c = "bytes" -> TitlecaseModeTryFromBytes(value)
              [] c = "option_bytes" -> TitlecaseModeTryFromOptionBytes(value)
              [] c = "str" -> TitlecaseModeTryFromStr(value)
              [] c = "option_str" -> TitlecaseModeTryFromOptionStr(value)
              [] c = "from_str" -> TitlecaseModeFromStr(value))

InitModes ==
    /\ op \in Ops
    /\ conv \in Convs
    /\ token \in TokensOf(conv)
    /\ parsed = None
    /\ input = <<>>
    /\ out = <<>>
    /\ IterVarsUnused
    /\ AsciiVarsUnused
    /\ CharVarsUnused
    /\ WordVarsUnused

\* The conversion of the token.
ParseCall ==
    /\ parsed = None
    /\ parsed' = Some(TryFrom(op, conv, token))
    /\ UNCHANGED <<op, input, out, conv, token, iterVars, asciiVars,
                   charVars, wordVars>>

NextModes == ParseCall

SpecModes == InitModes /\ [][NextModes]_vars

----------------------------------------------------------------------------
\* A caller that builds one CaseMappingIter and calls next() and next_back()
\* on it in any order.

\* The chars handed to to_titlecase: the keys of the table, '\0', a capital,
\* a titlecase letter, and chars below, between and above the keys.
Letters == {0, 65, 97, 105, 106, 223, 452, 453, 8022, 8490, 64260, 66560}

\* The chars a slot of a mapping holds: '\0' and three others.
SlotChars == {0, 83, 115, 834}

Triples == [1..3 -> SlotChars]

InitChars ==
    /\ \/ /\ letter \in {Some(c) : c \in Letters}
          /\ triple = None
          /\ case_mapping_iter = None
       \/ /\ letter = None
          /\ triple \in {Some(t) : t \in Triples}
          /\ case_mapping_iter = Some(CaseMappingIterNew(triple[1]))
    /\ fwd = <<>>
    /\ bwd = <<>>
    /\ zeroCalls = 0
    /\ op = "titlecase"
    /\ input = <<>>
    /\ out = <<>>
    /\ IterVarsUnused
    /\ AsciiVarsUnused
    /\ ModeVarsUnused
    /\ WordVarsUnused

\* to_titlecase(letter), and CaseMappingIter::new on what it returned.
ToTitlecaseCall ==
    /\ letter # None
    /\ triple = None
    /\ triple' = Some(to_titlecase(letter[1]))
    /\ case_mapping_iter' = Some(ToTitlecase(letter[1]))
    /\ UNCHANGED <<op, input, out, letter, fwd, bwd, zeroCalls, iterVars,
                   asciiVars, modeVars, wordVars>>

\* One call of next() on the CaseMappingIter.
MappingNextCall ==
    /\ case_mapping_iter # None
    /\ LET r == CaseMappingIterNext(case_mapping_iter[1])
       IN /\ r.item = None => zeroCalls < MaxNoneCalls
          /\ case_mapping_iter' = Some(r.iter)
          /\ fwd' = IF r.item = None THEN fwd ELSE Append(fwd, r.item[1])
          /\ zeroCalls' = IF r.item = None THEN zeroCalls + 1 ELSE zeroCalls
    /\ UNCHANGED <<op, input, out, letter, triple, bwd, iterVars, asciiVars,
                   modeVars, wordVars>>

\* One call of next_back() on the CaseMappingIter.
MappingNextBackCall ==
    /\ case_mapping_iter # None
    /\ LET r == CaseMappingIterNextBack(case_mapping_iter[1])
       IN /\ r.item = None => zeroCalls < MaxNoneCalls
          /\ case_mapping_iter' = Some(r.iter)
          /\ bwd' = IF r.item = None THEN bwd ELSE Append(bwd, r.item[1])
          /\ zeroCalls' = IF r.item = None THEN zeroCalls + 1 ELSE zeroCalls
    /\ UNCHANGED <<op, input, out, letter, triple, fwd, iterVars, asciiVars,
                   modeVars, wordVars>>

NextChars == ToTitlecaseCall \/ MappingNextCall \/ MappingNextBackCall

SpecChars == InitChars /\ [][NextChars]_vars

----------------------------------------------------------------------------
\* size_hint() of a full-Unicode iterator in the arithmetic of usize.  A
\* usize is the sequence of its 16-bit limbs, the lowest first: two limbs on
\* a 32-bit target, four on a 64-bit one.  The remaining slice is given by
\* its length and by what is_ascii() returns on it.

Limb == 2 ^ 16

\* a * k + carry, limb by limb; the carry out of the top limb is what does
\* not fit into the usize.
RECURSIVE MulLimbs(_, _, _)
MulLimbs(a, k, carry) ==
    IF a = <<>> THEN [limbs |-> <<>>, carry |-> carry]
    ELSE LET p == a[1] * k + carry
             rest == MulLimbs(Tail(a), k, p \div Limb)
         IN [limbs |-> <<p % Limb>> \o rest.limbs, carry |-> rest.carry]

\* usize * usize for a small right operand: the wrapped product and whether
\* the multiplication overflowed.
usize_mul(a, k) ==
    LET r == MulLimbs(a, k, 0)
    IN [value |-> r.limbs, overflow |-> r.carry # 0]

\* a <= b on two usize values of the same width.
RECURSIVE usize_le(_, _)
usize_le(a, b) ==
    IF a = <<>> THEN TRUE
    ELSE LET n == Len(a)
         IN IF a[n] # b[n] THEN a[n] < b[n]
            ELSE usize_le(SubSeq(a, 1, n - 1), SubSeq(b, 1, n - 1))

usize_zero(a) == \A i \in 1..Len(a) : a[i] = 0

\* The expansion constant of size_hint() of the full iterator of case o.
Expand(o) ==
    CASE o = "lowercase" -> TO_LOWER_EXPAND
      [] o = "uppercase" -> TO_UPPER_EXPAND
      [] o = "titlecase" -> TO_LOWER_OR_TITLE_EXPAND

\* size_hint() of the full iterator of case o over the slice: a product that
\* overflows panics in a build with overflow checks and wraps in one without.
FullSizeHintUsize(o, slice, checks) ==
    IF usize_zero(slice.len)
    THEN [panic |-> FALSE, hint |-> <<slice.len, Some(slice.len)>>]
    ELSE IF slice.ascii
    THEN [panic |-> FALSE, hint |-> <<slice.len, Some(slice.len)>>]
    ELSE LET m1 == usize_mul(slice.len, Expand(o))
             m2 == usize_mul(m1.value, UTF_8_CHAR_MAX_BYTES)
         IN IF checks /\ (m1.overflow \/ m2.overflow)
            THEN [panic |-> TRUE, hint |-> None]
            ELSE [panic |-> FALSE, hint |-> <<slice.len, Some(m2.value)>>]

\* Lengths up to isize::MAX: limbs around a twelfth of the limb range and at
\* both ends of it; the top limb stays below 2^15.
LowLimbs == {0, 1, 21845, 21846, 65535}
MidLimbs == {0, 21845, 65535}
TopLimbs == {0, 5461, 32767}

Lengths(bits) ==
    IF bits = 32
    THEN { <<lo, top>> : lo \in LowLimbs, top \in TopLimbs }
    ELSE { <<lo, m1, m2, top>> :
              lo \in LowLimbs, m1 \in MidLimbs, m2 \in MidLimbs,
              top \in TopLimbs }

InitWord ==
    /\ op \in Ops
    /\ target_bits \in {32, 64}
    /\ overflow_checks \in BOOLEAN
    /\ remaining \in { [len |-> l, ascii |-> a] :
                          l \in Lengths(target_bits), a \in BOOLEAN }
    /\ usize_zero(remaining.len) => remaining.ascii
    /\ sized = None
    /\ input = <<>>
    /\ out = <<>>
    /\ IterVarsUnused
    /\ AsciiVarsUnused
    /\ ModeVarsUnused
    /\ CharVarsUnused

\* One call of size_hint() on the iterator.
SizeHintOfLenCall ==
    /\ sized = None
    /\ sized' = Some(FullSizeHintUsize(op, remaining, overflow_checks))
    /\ UNCHANGED <<op, input, out, target_bits, overflow_checks, remaining,
                   iterVars, asciiVars, modeVars, charVars>>

NextWord == SizeHintOfLenCall

SpecWord == InitWord /\ [][NextWord]_vars

----------------------------------------------------------------------------
\* What the properties below compare the iterators with.

\* The units decode_utf8 splits a slice into, in order.
RECURSIVE Units(_)
Units(s) ==
    IF s = <<>> THEN <<>>
    ELSE LET d == DecodeUtf8(s)
         IN <<[ch |-> d.ch, bytes |-> SubSeq(s, 1, d.size)]>>
            \o Units(SubSeq(s, d.size + 1, Len(s)))

RECURSIVE EncodeAll(_)
EncodeAll(chars) ==
    IF chars = <<>> THEN <<>>
    ELSE EncodeUtf8(Head(chars)) \o EncodeAll(Tail(chars))

RECURSIVE Flatten(_)
Flatten(seqs) ==
    IF seqs = <<>> THEN <<>> ELSE Head(seqs) \o Flatten(Tail(seqs))

\* Index of the first valid codepoint among units, 0 when there is none.
FirstValid(units) ==
    LET valid == { k \in 1..Len(units) : units[k].ch # None }
    IN IF valid = {} THEN 0 ELSE CHOOSE k \in valid : \A m \in valid : k <= m

\* The mapping a valid codepoint is due: the titlecase mapping for the first
\* valid codepoint of a titlecase run, else the lowercase or uppercase one.
MappingDue(o, isFirstValid, ch) ==
    CASE o = "lowercase" -> ToLowercase(ch)
      [] o = "uppercase" -> ToUppercase(ch)
      [] o = "titlecase" ->
           IF isFirstValid THEN ToTitlecase(ch) ELSE ToLowercase(ch)

\* Per unit, the bytes it is due to contribute to the output.
UnitOutputs(o, units) ==
    [k \in 1..Len(units) |->
        IF units[k].ch = None THEN units[k].bytes
        ELSE EncodeAll(MappingDue(o, k = FirstValid(units), units[k].ch[1]))]

Expected(o, s) == Flatten(UnitOutputs(o, Units(s)))

IsPrefix(a, b) == Len(a) <= Len(b) /\ SubSeq(b, 1, Len(a)) = a

\* Number of output bytes due before unit k.
RECURSIVE Offset(_, _)
Offset(outs, k) ==
    IF k <= 1 THEN 0 ELSE Offset(outs, k - 1) + Len(outs[k - 1])

\* The part of the output that falls to unit k.
Segment(outs, k) ==
    SubSeq(out, Offset(outs, k) + 1, Offset(outs, k) + Len(outs[k]))

OnFullPath == iter.tag = "Full"
OnAsciiPath == iter.tag = "Ascii"
\* next() has returned None, after only successful calls.
Exhausted == ~panicked /\ noneCalls > 0

----------------------------------------------------------------------------
\* C1: on the full-Unicode lowercase and uppercase iterators the bytes
\* yielded are, unit by unit in input order, the UTF-8 encoding of every
\* codepoint of the unit's mapping for a valid codepoint and the raw bytes
\* for an invalid run: always a prefix of that concatenation, and all of it
\* once next() has returned None.
C1_MappedConcatenation ==
    (OnFullPath /\ op \in {"lowercase", "uppercase"}) =>
        /\ IsPrefix(out, Expected(op, input))
        /\ (Exhausted => out = Expected(op, input))

\* An uppercase run is finished over a slice that holds a codepoint mapping
\* to three codepoints and an invalid run.
C1_Witness ==
    /\ OnFullPath /\ op = "uppercase" /\ Exhausted
    /\ LET units == Units(input)
       IN /\ \E k \in 1..Len(units) :
                units[k].ch # None /\ Len(ToUppercase(units[k].ch[1])) = 3
          /\ \E k \in 1..Len(units) : units[k].ch = None

\* C2: on the three full-Unicode iterators every invalid run (1 to 3 bytes)
\* comes out byte for byte at the position its unit is due, and the valid
\* codepoints right before and after it come out case-mapped.
C2_InvalidRunsVerbatim ==
    (OnFullPath /\ Exhausted) =>
        LET units == Units(input)
            outs == UnitOutputs(op, units)
        IN \A k \in 1..Len(units) :
              units[k].ch = None =>
                /\ Len(units[k].bytes) \in 1..3
                /\ Segment(outs, k) = units[k].bytes
                /\ (k > 1 /\ units[k - 1].ch # None) =>
                       Segment(outs, k - 1) = outs[k - 1]
                /\ (k < Len(units) /\ units[k + 1].ch # None) =>
                       Segment(outs, k + 1) = outs[k + 1]

\* A run is finished over a slice with an invalid run of three bytes between
\* two valid codepoints whose mappings differ from their own bytes.
C2_Witness ==
    /\ OnFullPath /\ Exhausted
    /\ LET units == Units(input)
           outs == UnitOutputs(op, units)
       IN \E k \in 2..(Len(units) - 1) :
             /\ units[k].ch = None /\ Len(units[k].bytes) = 3
             /\ units[k - 1].ch # None /\ outs[k - 1] # units[k - 1].bytes
             /\ units[k + 1].ch # None /\ outs[k + 1] # units[k + 1].bytes

\* C3: the full-Unicode titlecase iterator yields the titlecase mapping of
\* the first valid codepoint and the lowercase mapping of every later one;
\* when the slice starts with a valid codepoint, the output is the encoded
\* titlecase mapping of it followed by the lowercase of the rest.
C3_TitleThenLower ==
    (OnFullPath /\ op = "titlecase" /\ Exhausted) =>
        /\ out = Expected("titlecase", input)
        /\ LET d == DecodeUtf8(input)
           IN d.ch # None =>
                out = EncodeAll(ToTitlecase(d.ch[1]))
                      \o Expected("lowercase",
                                  SubSeq(input, d.size + 1, Len(input)))

\* A titlecase run is finished over a slice whose first codepoint has a
\* titlecase mapping of several codepoints and which holds a later codepoint
\* that lowercasing changes.
C3_Witness ==
    /\ OnFullPath /\ op = "titlecase" /\ Exhausted
    /\ LET units == Units(input)
       IN /\ Len(units) >= 2
          /\ units[1].ch # None /\ Len(ToTitlecase(units[1].ch[1])) > 1
          /\ \E k \in 2..Len(units) :
                units[k].ch # None
                /\ ToLowercase(units[k].ch[1]) # <<units[k].ch[1]>>

\* The iterator as it was constructed.
Fresh == Construct(op, ctor, input, options)

\* The pending expansion of a full-Unicode iterator.
Pending(o, it) ==
    CASE o = "lowercase" -> it.lowercase
      [] o = "uppercase" -> it.uppercase
      [] o = "titlecase" -> it.case_iter

C5_FreshSizeHintCoversCount ==
    Exhausted =>
        LET h == IterSizeHint(op, Fresh)
        IN h[1] <= Len(out) /\ Len(out) <= h[2][1]

\* C6: on the full-Unicode path full consumption yields at least as many
\* bytes as the slice holds.
C6_EveryInputByteYields ==
    (OnFullPath /\ Exhausted) => Len(out) >= Len(input)

\* C7: count() on a newly constructed full-Unicode iterator is the number of
\* bytes exhaustive next() calls yield; 0 for the empty slice and the slice
\* length for a non-empty pure-ASCII slice.
C7_FreshCountIsYielded ==
    (OnFullPath /\ Exhausted) =>
        LET c == IterCount(op, Fresh)
        IN /\ ~c.panic
           /\ c.count = Len(out)
           /\ (input = <<>> => c.count = 0)
           /\ (input # <<>> /\ is_ascii(input)) => c.count = Len(input)

\* A full-Unicode run is finished over a slice that is not pure ASCII and
\* whose output has another length than the slice.
C7_Witness ==
    /\ OnFullPath /\ Exhausted
    /\ ~is_ascii(input) /\ Len(out) # Len(input)

\* C8: once next() has returned None, every later call returns None and
\* yields nothing, on the full, ASCII and empty variants.
C8_Fused ==
    [][noneCalls > 0 => (~panicked' /\ ret' = None /\ out' = out)]_vars

\* next() has been called again after it returned None, on an iterator that
\* had yielded bytes.
C8_Witness ==
    /\ noneCalls = MaxNoneCalls /\ ~panicked
    /\ OnFullPath /\ out # <<>> /\ ret = None

\* The input cursor, the staged range and the pending expansion are empty.
NothingLeft(o, it) ==
    /\ it.slice = <<>>
    /\ it.next_range.start >= it.next_range.end
    /\ (Pending(o, it) = None \/ Pending(o, it)[1] = <<>>)

\* C9: in every reachable state of a full-Unicode iterator, next() returns
\* None exactly when the cursor is empty, the staged range is empty and the
\* pending expansion is absent or has no codepoint left; else a byte.
C9_NoneIffNothingLeft ==
    (OnFullPath /\ ~panicked) =>
        LET r == IterNext(op, iter)
        IN /\ ~r.panic
           /\ (r.item = None) <=> NothingLeft(op, iter.iter)

\* The cursor and the staged range are empty while a codepoint is pending.
C9_Witness ==
    /\ OnFullPath /\ ~panicked
    /\ iter.iter.slice = <<>>
    /\ iter.iter.next_range.start >= iter.iter.next_range.end
    /\ Pending(op, iter.iter) # None /\ Pending(op, iter.iter)[1] # <<>>

\* C10: an ASCII iterator yields exactly as many bytes as the slice holds:
\* one per consumed byte at every moment, Len(input) when it is exhausted.
C10_AsciiLengthPreserved ==
    OnAsciiPath =>
        /\ Len(out) + Len(iter.iter.slice) = Len(input)
        /\ (Exhausted => Len(out) = Len(input))

\* An ASCII run is finished over a slice that holds an ASCII letter, a
\* multi-byte codepoint and an invalid run.
C10_Witness ==
    /\ OnAsciiPath /\ Exhausted
    /\ LET units == Units(input)
       IN /\ \E k \in 1..Len(units) : units[k].ch = None
          /\ \E k \in 1..Len(units) :
                units[k].ch # None /\ Len(units[k].bytes) > 1
          /\ \E k \in 1..Len(units) :
                units[k].ch # None /\ Len(units[k].bytes) = 1

\* C14: lowercase(s, Turkic), lowercase(s, Fold), uppercase(s, Turkic) and
\* titlecase(s, Turkic) panic in the entry point for every slice, the empty
\* one included: no iterator is returned, so no call is made on one and no
\* byte is ever yielded under these modes.
C14_UnimplementedModePanicsAtConstruction ==
    (ctor = "options" /\ options \in {"Turkic", "Fold"}) =>
        /\ iter = Panic /\ panicked
        /\ out = <<>> /\ ret = None /\ hint = None /\ counted = None

\* lowercase(b"", Fold) has panicked.
C14_Witness ==
    /\ op = "lowercase" /\ ctor = "options" /\ options = "Fold"
    /\ input = <<>> /\ panicked

\* All the bytes next() yields from iterator self on, to the first None
\* (to a panic at the latest).
RECURSIVE Collect(_, _)
Collect(o, self) ==
    LET r == IterNext(o, self)
    IN IF r.panic \/ r.item = None THEN <<>>
       ELSE <<r.item[1]>> \o Collect(o, r.iter)

RECURSIVE CollectAscii(_, _)
CollectAscii(o, self) ==
    LET r == AsciiNext(o, self)
    IN IF r.item = None THEN <<>>
       ELSE <<r.item[1]>> \o CollectAscii(o, r.iter)

\* The concrete iterator under a facade iterator, called directly.
InnerNextItem(o, self) ==
    CASE self.tag = "Empty" -> None
      [] self.tag = "Ascii" -> AsciiNext(o, self.iter).item
      [] self.tag = "Full" ->
           CASE o = "lowercase" -> FullLowercaseNext(self.iter).item
             [] o = "uppercase" -> FullUppercaseNext(self.iter).item
             [] o = "titlecase" -> FullTitlecaseNext(self.iter).item

InnerSizeHint(o, self) ==
    CASE self.tag = "Empty" -> <<0, Some(0)>>
      [] self.tag = "Ascii" -> <<Len(self.iter.slice), Some(Len(self.iter.slice))>>
      [] self.tag = "Full" ->
           CASE o = "lowercase" -> FullLowercaseSizeHint(self.iter)
             [] o = "uppercase" -> FullUppercaseSizeHint(self.iter)
             [] o = "titlecase" -> FullTitlecaseSizeHint(self.iter)

InnerCount(o, self) ==
    CASE self.tag = "Empty" -> 0
      [] self.tag = "Ascii" -> Len(self.iter.slice)
      [] self.tag = "Full" ->
           CASE o = "lowercase" -> FullLowercaseCount(self.iter).count
             [] o = "uppercase" -> FullUppercaseCount(self.iter).count
             [] o = "titlecase" -> FullTitlecaseCount(self.iter).count

\* C15: with mode Lithuanian the entry points give the iterator, the bytes,
\* the size_hint and the count they give with mode Full; with mode Ascii they
\* give the bytes of the concrete ASCII iterator over the slice; and what
\* next(), size_hint() and count() of the facade return is what the inner
\* variant returns.
C15_Dispatch ==
    ~panicked =>
        /\ (ctor = "options" /\ options = "Lithuanian") =>
              LET full == Construct(op, "options", input, "Full")
              IN /\ Fresh = full /\ iter.tag = "Full"
                 /\ Exhausted => out = Collect(op, full)
                 /\ IterSizeHint(op, Fresh) = IterSizeHint(op, full)
                 /\ IterCount(op, Fresh) = IterCount(op, full)
        /\ (ctor = "options" /\ options = "Ascii") =>
              /\ iter.tag = "Ascii"
              /\ Exhausted => out = CollectAscii(op, AsciiWithSlice(op, input))
        /\ IterNext(op, iter).item = InnerNextItem(op, iter)
        /\ hint # None => hint[1] = InnerSizeHint(op, iter)
        /\ counted # None => counted[1] = InnerCount(op, iter)

\* A Lithuanian run is finished over a slice that is not pure ASCII and
\* whose mapping differs from it.
C15_Witness ==
    /\ ctor = "options" /\ options = "Lithuanian" /\ Exhausted
    /\ ~is_ascii(input) /\ out # input

----------------------------------------------------------------------------
\* Properties of the concrete ASCII iterators and the ascii slice functions.

\* The byte an ASCII lowercase or uppercase mapping is due for byte b.
AsciiMapped(o, b) ==
    CASE o = "lowercase" -> IF b \in 65..90 THEN b + 32 ELSE b
      [] o = "uppercase" -> IF b \in 97..122 THEN b - 32 ELSE b

\* The input byte the j-th byte yielded by next_back() was taken from.
FromBack(j) == input[Len(input) - j + 1]

\* C11: on the ASCII lowercase and uppercase iterators output byte i is a
\* function of input byte i alone: 'A'..'Z' become 'a'..'z' in lowercase
\* mode, 'a'..'z' become 'A'..'Z' in uppercase mode, and every other byte,
\* bytes >= 0x80 included, is yielded unchanged (from either end).
C11_AsciiBytewise ==
    op \in {"lowercase", "uppercase"} =>
        /\ \A i \in 1..Len(out) : out[i] = AsciiMapped(op, input[i])
        /\ \A j \in 1..Len(back) : back[j] = AsciiMapped(op, FromBack(j))

\* A forward run is finished over a slice that holds a letter the mode
\* flips, a high byte and a neighbour of the letter ranges.
C11_Witness ==
    /\ op \in {"lowercase", "uppercase"}
    /\ ascii.slice = <<>> /\ back = <<>> /\ Len(out) = MaxBytes
    /\ \E i \in 1..Len(input) : out[i] # input[i]
    /\ \E i \in 1..Len(input) : input[i] >= 128
    /\ \E i \in 1..Len(input) : input[i] \in {64, 91, 96, 123}

\* C12: the ASCII titlecase iterator yields, by next(), the ASCII uppercase
\* of s[0] first and the ASCII lowercase of s[i] for every i >= 1; a first
\* byte that is no lowercase letter passes through unchanged, and no byte
\* after the first is yielded as an uppercase letter.
C12_AsciiTitleForward ==
    op = "titlecase" =>
        /\ \A i \in 1..Len(out) :
              out[i] = IF i = 1 THEN AsciiMapped("uppercase", input[1])
                       ELSE AsciiMapped("lowercase", input[i])
        /\ (out # <<>> /\ input[1] \notin 97..122) => out[1] = input[1]
        /\ \A i \in 2..Len(out) : out[i] \notin 65..90

\* A forward titlecase run is finished over a slice whose first byte is a
\* high byte and that holds a lowercase and an uppercase letter after it.
C12_Witness ==
    /\ op = "titlecase" /\ back = <<>> /\ ascii.slice = <<>>
    /\ Len(out) = Len(input) /\ Len(input) >= 3
    /\ input[1] >= 128
    /\ \E i \in 2..Len(input) : input[i] \in 97..122
    /\ \E i \in 2..Len(input) : input[i] \in 65..90

Reverse(s) == [i \in 1..Len(s) |-> s[Len(s) - i + 1]]

\* What forward-only iteration of the ASCII titlecase iterator yields.
AsciiTitleForward(s) ==
    [i \in 1..Len(s) |-> IF i = 1 THEN AsciiMapped("uppercase", s[1])
                         ELSE AsciiMapped("lowercase", s[i])]

ForwardDone == ascii.slice = <<>> /\ back = <<>>

\* C19: the ASCII mappings are idempotent: the bytes an ASCII lowercase,
\* uppercase or titlecase iterator yields over what the same iterator
\* yielded over s are the bytes it yielded over s.
C19_AsciiIdempotent ==
    ForwardDone => CollectAscii(op, AsciiWithSlice(op, out)) = out

\* A forward run is finished whose output differs from a slice that holds a
\* high byte.
C19_Witness ==
    /\ ForwardDone /\ out # input
    /\ \E i \in 1..Len(input) : input[i] >= 128

\* What the ASCII mapping of a slice is due to be.
AsciiExpected(o, s) ==
    IF o = "titlecase" THEN AsciiTitleForward(s)
    ELSE [i \in 1..Len(s) |-> AsciiMapped(o, s[i])]

\* C20: make_ascii_titlecase (in place) and to_ascii_titlecase (copy) give
\* the same bytes as each other and as the ASCII titlecase iterator
\* collected: the first byte ASCII-uppercased, the later ones
\* ASCII-lowercased, the length kept, the empty slice left empty; and so do
\* the lowercase and uppercase pairs with their iterators.
C20_SliceFunctionsAgreeWithIterator ==
    /\ buf # None =>
          /\ buf[1] = AsciiExpected(op, input)
          /\ Len(buf[1]) = Len(input)
          /\ ForwardDone => buf[1] = out
    /\ copy # None =>
          /\ copy[1] = AsciiExpected(op, input)
          /\ Len(copy[1]) = Len(input)
          /\ ForwardDone => copy[1] = out
    /\ (buf # None /\ copy # None) => buf[1] = copy[1]

\* Both titlecase functions and a forward run of the titlecase iterator are
\* done over a slice whose first byte is a lowercase letter and that holds
\* an uppercase letter later.
C20_Witness ==
    /\ op = "titlecase" /\ buf # None /\ copy # None /\ ForwardDone
    /\ Len(input) >= 2 /\ Len(out) = Len(input)
    /\ input[1] \in 97..122
    /\ \E i \in 2..Len(input) : input[i] \in 65..90

----------------------------------------------------------------------------
\* Properties of the mode selectors' conversions.

\* The token as an optional byte string, whatever type it was given as.
TokenBytes ==
    CASE conv = "bytes" -> Some(token)
      [] conv = "option_bytes" -> token
      [] conv \in {"str", "from_str"} -> Some(token.utf8)
      [] conv = "option_str" ->
           IF token = None THEN None ELSE Some(token[1].utf8)

IsInvalidOption(r) ==
    ~r.ok /\ r.val = InvalidCaseMappingModeNew /\ message(r.val) = "invalid option"

\* C16: a token converts to a mode by exact, case-sensitive match: "ascii",
\* "turkic", "lithuanian" (and "fold" for the lowercase selector) give their
\* mode, an absent token gives Full, and every other token ("full", the
\* empty one, other spellings) gives the InvalidCaseMappingMode error whose
\* message is "invalid option"; the result depends on the token alone, not
\* on the type it is converted from.
C16_ModeParsing ==
    parsed # None =>
        LET r == parsed[1]
            b == TokenBytes
        IN IF b = None THEN r = Ok("Full")
           ELSE IF b[1] = B_ascii THEN r = Ok("Ascii")
           ELSE IF b[1] = B_turkic THEN r = Ok("Turkic")
           ELSE IF b[1] = B_lithuanian THEN r = Ok("Lithuanian")
           ELSE IF b[1] = B_fold /\ op = "lowercase" THEN r = Ok("Fold")
           ELSE IsInvalidOption(r)

\* Some("ASCII") was converted from an Option<&str> and was rejected.
C16_Witness ==
    /\ conv = "option_str" /\ parsed # None
    /\ token = Some(Str(<<65, 83, 67, 73, 73>>))
    /\ IsInvalidOption(parsed[1])

----------------------------------------------------------------------------
\* Properties of the full-Unicode iterators in the states between calls.

\* The bytes the iterator in the current state has still to yield.
Remaining == Collect(op, iter)

\* C21: in every reachable state of a full-Unicode iterator, with bytes
\* staged or codepoints pending or neither, the pair size_hint() returns
\* bounds the number of bytes next() has still to yield: lower bound at
\* most that number, that number at most the upper bound.
C21_SizeHintSoundEverywhere ==
    (OnFullPath /\ ~panicked /\ hint # None) =>
        /\ hint[1][1] <= Len(Remaining)
        /\ Len(Remaining) <= hint[1][2][1]

\* C22: in every reachable state of a full-Unicode iterator, with bytes
\* staged or codepoints pending while the rest of the input is empty or
\* pure ASCII included, count() returns the number of bytes next() would
\* still yield.
C22_CountIsRemainingEverywhere ==
    (OnFullPath /\ ~panicked /\ counted # None) =>
        counted[1] = Len(Remaining)

\* The part of the input the cursor of the full iterator has moved past.
Consumed == SubSeq(input, 1, Len(input) - Len(iter.iter.slice))

OnFullTitlecase == OnFullPath /\ op = "titlecase" /\ ~panicked

\* C24: the beginning flag of the full-Unicode titlecase iterator is true
\* exactly in the states in which no valid codepoint has been decoded yet:
\* it starts true, draining staged bytes and the decode of an invalid run
\* leave it as it is, the first decode of a valid codepoint clears it, and
\* it is never true again afterwards.
C24_BeginningUntilFirstValid ==
    /\ [](OnFullTitlecase =>
            (iter.iter.beginning <=> FirstValid(Units(Consumed)) = 0))
    /\ [][OnFullTitlecase =>
            /\ ~iter.iter.beginning => ~iter'.iter.beginning
            /\ (iter.iter.beginning /\ ~iter'.iter.beginning) =>
                  (out' # out /\ arm' = "valid")
            /\ (out' # out /\ arm' \in {"staged", "pending", "invalid"}) =>
                  iter'.iter.beginning = iter.iter.beginning
            /\ (noneCalls' # noneCalls) =>
                  iter'.iter.beginning = iter.iter.beginning
          ]_vars

\* An invalid run was decoded and drained with the flag still set, and the
\* decode of the valid codepoint after it has just cleared the flag.
C24_Witness ==
    /\ OnFullTitlecase /\ input # <<>>
    /\ Units(input)[1].ch = None
    /\ arm = "valid" /\ ~iter.iter.beginning
    /\ FirstValid(Units(Consumed)) = Len(Units(Consumed))
    /\ Len(Units(Consumed)) >= 2

\* A step that is a call of next() on a full-Unicode iterator.
FullNextStep ==
    OnFullPath /\ ~panicked /\ (out' # out \/ noneCalls' # noneCalls)

HasStaged(it) == it.next_range.start < it.next_range.end
HasPending(o, it) == Pending(o, it) # None /\ Pending(o, it)[1] # <<>>

\* C25: next() of a full-Unicode iterator serves in a fixed order: while the
\* staged range is non-empty it returns the next staged byte and touches
\* neither cursor nor pending expansion; else, while the pending expansion
\* has a codepoint, it encodes and stages that codepoint; the decoder runs
\* only when the range is empty and the expansion is absent or exhausted,
\* and the old expansion is dropped before the decode: after the decode
\* the expansion is absent (invalid run, end of input) or is the rest of
\* the mapping of the codepoint just decoded.
C25_NextPriority ==
    [][FullNextStep =>
        LET it == iter.iter
            it2 == iter'.iter
            d == DecodeUtf8(it.slice)
        IN /\ HasStaged(it) =>
                /\ arm' = "staged"
                /\ ret' = Some(it.next_bytes[it.next_range.start + 1])
                /\ it2.slice = it.slice
                /\ Pending(op, it2) = Pending(op, it)
           /\ (~HasStaged(it) /\ HasPending(op, it)) =>
                /\ arm' = "pending"
                /\ ret' = Some(EncodeUtf8(Head(Pending(op, it)[1]))[1])
                /\ it2.slice = it.slice
                /\ Pending(op, it2) = Some(Tail(Pending(op, it)[1]))
           /\ (~HasStaged(it) /\ ~HasPending(op, it)) =>
                /\ arm' = (IF d.size = 0 THEN "end"
                           ELSE IF d.ch # None THEN "valid" ELSE "invalid")
                /\ arm' \in {"end", "invalid"} => Pending(op, it2) = None
                /\ arm' = "valid" =>
                     Pending(op, it2) =
                        Some(Tail(MappingDue(op, op = "titlecase"
                                                   /\ it.beginning, d.ch[1])))
      ]_vars

\* U+1F56, whose uppercase is three codepoints of two bytes each, has been
\* served from staged range and pending expansion in turn, and the decoder
\* has then been invoked for the unit after it.
C25_Witness ==
    /\ OnFullPath /\ op = "uppercase" /\ ~panicked
    /\ Len(input) > 3 /\ SubSeq(input, 1, 3) = <<225, 189, 150>>
    /\ arm \in {"valid", "invalid"} /\ Len(out) = 7

\* The bytes a call of next() that finds the staged range empty writes into
\* the staging buffer: an encoded codepoint or a raw invalid run.
Written(o, it) ==
    LET d == DecodeUtf8(it.slice)
    IN IF HasPending(o, it) THEN EncodeUtf8(Head(Pending(o, it)[1]))
       ELSE IF d.size = 0 THEN <<>>
       ELSE IF d.ch = None THEN SubSeq(it.slice, 1, d.size)
       ELSE EncodeUtf8(Head(MappingDue(o, o = "titlecase" /\ it.beginning,
                                       d.ch[1])))

\* The bytes staged and not yet drained.
Staged(it) == SubSeq(it.next_bytes, it.next_range.start + 1, it.next_range.end)

\* C26: the staged range of a full-Unicode iterator always has
\* start <= end <= 4, and its end never exceeds the number of bytes the last
\* write put into the staging buffer: a write of n bytes sets the range to
\* 1..n over exactly those bytes, a drain moves start by one and leaves end
\* and buffer alone, so every index drained refers to a byte of the current
\* unit and never to a stale byte of an earlier, longer one.
C26_StagedRangeWithinLastWrite ==
    /\ [](OnFullPath /\ ~panicked =>
            /\ 0 <= iter.iter.next_range.start
            /\ iter.iter.next_range.start <= iter.iter.next_range.end
            /\ iter.iter.next_range.end <= UTF_8_CHAR_MAX_BYTES
            /\ IsPrefix(out \o Staged(iter.iter), Expected(op, input)))
    /\ [][FullNextStep =>
            LET it == iter.iter
                it2 == iter'.iter
                w == Written(op, it)
            IN IF HasStaged(it)
               THEN /\ it2.next_range.start = it.next_range.start + 1
                    /\ it2.next_range.end = it.next_range.end
                    /\ it2.next_bytes = it.next_bytes
               ELSE IF w = <<>>
               THEN it2.next_range = it.next_range
                    /\ it2.next_bytes = it.next_bytes
               ELSE /\ it2.next_range = [start |-> 1, end |-> Len(w)]
                    /\ SubSeq(it2.next_bytes, 1, Len(w)) = w
                    /\ ret' = Some(w[1])
          ]_vars

\* A unit shorter than the one before it has been written: the buffer holds
\* a stale byte of the earlier unit just past the end of the staged range.
C26_Witness ==
    /\ OnFullPath /\ ~panicked
    /\ iter.iter.next_range.end \in 1..3
    /\ iter.iter.next_bytes[iter.iter.next_range.end + 1] # 0
    /\ HasStaged(iter.iter)

IsSuffix(a, b) ==
    Len(a) <= Len(b) /\ SubSeq(b, Len(b) - Len(a) + 1, Len(b)) = a

\* C27: the input cursor of a full-Unicode iterator only ever shrinks from
\* the left: a call of next() that drains a staged byte or encodes a pending
\* codepoint leaves it unchanged, a call that decodes moves it by the
\* length n of the decoded unit, 1 <= n <= 4, one unit per call at most, and
\* size_hint() and count() do not move it; what is left is always a suffix
\* of what was left before, so no consumed byte is read again.
C27_CursorShrinksFromLeft ==
    [][(OnFullPath /\ ~panicked) =>
        LET s1 == iter.iter.slice
            s2 == iter'.iter.slice
            n == Len(s1) - Len(s2)
        IN /\ IsSuffix(s2, s1)
           /\ IsSuffix(s1, input)
           /\ ~FullNextStep => n = 0
           /\ (FullNextStep /\ (HasStaged(iter.iter)
                                  \/ HasPending(op, iter.iter))) => n = 0
           /\ (FullNextStep /\ ~HasStaged(iter.iter)
                            /\ ~HasPending(op, iter.iter)) =>
                 /\ n = DecodeUtf8(s1).size
                 /\ s1 # <<>> => n \in 1..UTF_8_CHAR_MAX_BYTES
                 /\ s1 # <<>> => n = Len(Units(s1)[1].bytes)
      ]_vars

\* The cursor has moved past a unit of three bytes and a unit of one byte
\* in two decodes, with drains between them, and stands before a third unit.
C27_Witness ==
    /\ OnFullPath /\ ~panicked
    /\ Len(input) = 5
    /\ Len(Units(input)) = 3
    /\ Len(Units(input)[1].bytes) = 3
    /\ Len(iter.iter.slice) = 1
    /\ ~HasStaged(iter.iter)

\* An upper bound on the bytes a full-Unicode iterator can still yield: the
\* bytes staged, four per pending codepoint, and for every input byte left
\* three codepoints of four bytes.
Budget(o, it) ==
    Len(Staged(it))
    + (IF Pending(o, it) = None THEN 0
       ELSE UTF_8_CHAR_MAX_BYTES * Len(Pending(o, it)[1]))
    + Len(it.slice) * 3 * UTF_8_CHAR_MAX_BYTES

\* C28: iteration terminates: every call of next() returns, every call that
\* yields a byte uses up some of a finite budget that starts at
\* len(s) * 3 * 4 on the full-Unicode path and at len(s) on the ASCII path,
\* and the decoder consumes at least one byte of a non-empty slice; so
\* next() returns None after at most len(s) * 3 * 4 yielding calls on the
\* full-Unicode path and after exactly len(s) on the ASCII path.
C28_Terminates ==
    /\ [](~panicked =>
            /\ OnFullPath =>
                 /\ Len(out) + Budget(op, iter.iter)
                       <= Len(input) * 3 * UTF_8_CHAR_MAX_BYTES
                 /\ iter.iter.slice # <<>> =>
                       DecodeUtf8(iter.iter.slice).size >= 1
                 /\ Exhausted => Budget(op, iter.iter) = 0
            /\ OnAsciiPath =>
                 /\ Len(out) + Len(iter.iter.slice) = Len(input)
                 /\ Exhausted => Len(out) = Len(input)
            /\ iter.tag = "Empty" => out = <<>>)
    /\ [][(~panicked /\ out' # out) =>
            /\ ~panicked'
            /\ Len(out') = Len(out) + 1
            /\ OnFullPath =>
                 Budget(op, iter'.iter) < Budget(op, iter.iter)
            /\ OnAsciiPath =>
                 Len(iter'.iter.slice) = Len(iter.iter.slice) - 1
          ]_vars

\* A full-Unicode run that yielded more bytes than its input holds has come
\* to its end.
C28_Witness ==
    /\ OnFullPath /\ Exhausted
    /\ Len(input) >= 4
    /\ Len(out) > Len(input)

----------------------------------------------------------------------------
\* Properties of the ASCII iterators under calls from both ends.

\* C23: under every interleaving of next() and next_back() on the ASCII
\* titlecase iterator the byte yielded for position i of the slice is the
\* ASCII uppercase of s[i] when i = 0 and the ASCII lowercase of s[i]
\* otherwise: at most index 0 is ever uppercased.
C23_OnlyIndexZeroUppercased ==
    op = "titlecase" =>
        /\ \A i \in 1..Len(out) : out[i] = AsciiTitleForward(input)[i]
        /\ \A j \in 1..Len(back) :
              back[j] = AsciiTitleForward(input)[Len(input) - j + 1]

\* C29: under every interleaving of next() and next_back() on the ASCII
\* lowercase and uppercase iterators every position of the slice is yielded
\* exactly once, from the front in increasing and from the back in
\* decreasing order, the byte for position i is the mapping of s[i] from
\* whichever end it is taken, and both calls return None once the two ends
\* have met, and only then.
C29_DoubleEndedExactlyOnce ==
    op \in {"lowercase", "uppercase"} =>
        /\ Len(out) + Len(back) <= Len(input)
        /\ ascii.slice = SubSeq(input, Len(out) + 1, Len(input) - Len(back))
        /\ \A i \in 1..Len(out) : out[i] = AsciiMapped(op, input[i])
        /\ \A j \in 1..Len(back) : back[j] = AsciiMapped(op, FromBack(j))
        /\ (AsciiNext(op, ascii).item = None)
              <=> (Len(out) + Len(back) = Len(input))
        /\ (AsciiNextBack(op, ascii).item = None)
              <=> (Len(out) + Len(back) = Len(input))

\* Over three bytes with a letter the mode flips at each end and a letter it
\* keeps in the middle, bytes were taken from both ends until they met.
C29_Witness ==
    /\ op \in {"lowercase", "uppercase"}
    /\ Len(input) = 3 /\ ascii.slice = <<>>
    /\ Len(out) = 2 /\ Len(back) = 1
    /\ out[1] # input[1] /\ out[2] = input[2] /\ input[2] \in 65..122
    /\ back[1] # input[3]

\* The number of bytes the ASCII iterator has still to yield.
AsciiRemaining(self) == Len(CollectAscii(op, self))

\* C30: the ASCII iterators are exact-size: in every reachable state
\* size_hint() is (r, Some(r)) and count() is r, r the number of bytes not
\* yet yielded from either end, and every next() or next_back() that yields
\* a byte lowers r by one.
C30_AsciiExactSize ==
    /\ [](/\ AsciiRemaining(ascii) = Len(input) - Len(out) - Len(back)
          /\ AsciiSizeHint(op, ascii)
               = <<AsciiRemaining(ascii), Some(AsciiRemaining(ascii))>>
          /\ AsciiCount(op, ascii)
               = [count |-> AsciiRemaining(ascii), panic |-> FALSE])
    /\ [][(out' # out \/ back' # back) =>
            /\ AsciiRemaining(ascii') = AsciiRemaining(ascii) - 1
            /\ AsciiSizeHint(op, ascii')[1] = AsciiSizeHint(op, ascii)[1] - 1
            /\ AsciiCount(op, ascii').count = AsciiCount(op, ascii).count - 1
          ]_vars

\* A titlecase iterator over three bytes has yielded one byte from each end
\* and has one byte left.
C30_Witness ==
    /\ op = "titlecase" /\ Len(input) = 3
    /\ Len(out) = 1 /\ Len(back) = 1
    /\ AsciiSizeHint(op, ascii) = <<1, Some(1)>>
    /\ AsciiCount(op, ascii).count = 1

----------------------------------------------------------------------------
\* The full-Unicode iterators against the ASCII iterators.

\* What the concrete ASCII iterator of the same case yields over the input.
AsciiOutput == CollectAscii(op, AsciiWithSlice(op, input))

\* C31: over a slice of ASCII bytes only, the full-Unicode lowercase,
\* uppercase and titlecase iterators yield, by next(), the byte sequence
\* the ASCII iterator of the same case yields: nothing expands, and the
\* output is as long as the input.
C31_FullAgreesWithAsciiOnAsciiInput ==
    (OnFullPath /\ ~panicked /\ is_ascii(input)) =>
        /\ IsPrefix(out, AsciiOutput)
        /\ Exhausted => (out = AsciiOutput /\ Len(out) = Len(input))

\* A full-Unicode run over three ASCII letters, which the mapping changed,
\* has come to its end.
C31_Witness ==
    /\ OnFullPath /\ Exhausted /\ is_ascii(input)
    /\ Len(input) = 3 /\ out # input
    /\ \E i \in 1..3 : out[i] = input[i]

----------------------------------------------------------------------------
\* Properties of to_titlecase and CaseMappingIter.

\* The indices of the rows a scan of the whole table finds the key c in.
RowsOf(c) ==
    { i \in 1..Len(SORTED_TITLECASE_MAPPING) :
         SORTED_TITLECASE_MAPPING[i][1] = c }

\* An uppercase letter and a titlecase letter: chars already in titlecase.
AlreadyTitlecase == {65, 453}

\* C32: to_titlecase(c) returns, for a c that is a key of the titlecase
\* table, the three slots of its row, an absent slot as '\0', and
\* [c, '\0', '\0'] for a c with no row; the keys of the table increase
\* strictly, so the binary search finds every key a scan of the table
\* finds; a char that is already titlecase maps to itself.
C32_TitlecaseLookup ==
    /\ \A i, j \in 1..Len(SORTED_TITLECASE_MAPPING) :
          i < j => SORTED_TITLECASE_MAPPING[i][1] < SORTED_TITLECASE_MAPPING[j][1]
    /\ (letter # None /\ triple # None) =>
          /\ RowsOf(letter[1]) # {} =>
                \E i \in RowsOf(letter[1]) :
                   triple[1] = SORTED_TITLECASE_MAPPING[i][2]
          /\ RowsOf(letter[1]) = {} => triple[1] = <<letter[1], 0, 0>>
          /\ letter[1] \in AlreadyTitlecase => triple[1] = <<letter[1], 0, 0>>
          /\ Len(triple[1]) = 3

\* The last key of the table has been looked up and its three chars have
\* been yielded.
C32_Witness ==
    /\ letter = Some(64260)
    /\ triple = Some(<<70, 102, 108>>)
    /\ fwd = <<70, 102, 108>>

\* The chars the slots of the mapping hold before the trailing '\0' slots;
\* slot 0 always counts.
BeforeTrailingSentinels(t) ==
    LET n == IF t[3] # 0 THEN 3 ELSE IF t[2] # 0 THEN 2 ELSE 1
    IN SubSeq(t, 1, n)

\* The chars yielded and the chars still held, in the order of the slots.
InSlotOrder == fwd \o case_mapping_iter[1] \o Reverse(bwd)

\* C34: CaseMappingIter is a double-ended exact-size iterator: under every
\* interleaving of next() and next_back() every char of the mapping is
\* yielded exactly once, by next() from the front in order and by
\* next_back() from the back in reverse order, size_hint() is (k, Some(k)),
\* k the number of chars not yet yielded, and once the iterator is Zero
\* both ends return None and it stays Zero.
C34_MappingIterDoubleEnded ==
    /\ [](case_mapping_iter # None =>
            LET all == CaseMappingIterNew(triple[1])
                k == Len(all) - Len(fwd) - Len(bwd)
            IN /\ k >= 0
               /\ fwd = SubSeq(all, 1, Len(fwd))
               /\ \A j \in 1..Len(bwd) : bwd[j] = all[Len(all) - j + 1]
               /\ case_mapping_iter[1]
                     = SubSeq(all, Len(fwd) + 1, Len(all) - Len(bwd))
               /\ CaseMappingIterSizeHint(case_mapping_iter[1]) = <<k, Some(k)>>
               /\ (k = 0) <=>
                     (CaseMappingIterNext(case_mapping_iter[1]).item = None)
               /\ (k = 0) <=>
                     (CaseMappingIterNextBack(case_mapping_iter[1]).item = None)
               /\ zeroCalls > 0 => case_mapping_iter[1] = <<>>)
    /\ [][zeroCalls' # zeroCalls =>
            /\ case_mapping_iter[1] = <<>>
            /\ case_mapping_iter' = case_mapping_iter
            /\ fwd' = fwd /\ bwd' = bwd]_vars

\* A mapping of three different chars has been taken from both ends, the
\* middle char last and from the back, and a call has then returned None.
C34_Witness ==
    /\ triple # None /\ case_mapping_iter = Some(<<>>)
    /\ triple[1][1] # triple[1][2] /\ triple[1][2] # triple[1][3]
    /\ triple[1][1] # triple[1][3] /\ triple[1][3] # 0
    /\ Len(fwd) = 1 /\ Len(bwd) = 2
    /\ zeroCalls > 0

\* C35: CaseMappingIter::new(chars) emits the chars before the trailing '\0'
\* slots and no trailing '\0': three chars when chars[2] is not '\0', two
\* when chars[2] is '\0' and chars[1] is not, and one otherwise, so at least
\* one char is always emitted, the '\0' of slot 0 included.
C35_NoTrailingSentinelEmitted ==
    (letter = None /\ case_mapping_iter # None) =>
        /\ InSlotOrder = BeforeTrailingSentinels(triple[1])
        /\ Len(InSlotOrder) = (IF triple[1][3] # 0 THEN 3
                               ELSE IF triple[1][2] # 0 THEN 2 ELSE 1)
        /\ Len(InSlotOrder) >= 1
        /\ Len(InSlotOrder) > 1 => InSlotOrder[Len(InSlotOrder)] # 0

\* A mapping with '\0' in the middle slot only has yielded three chars,
\* the '\0' among them.
C35_Witness ==
    /\ letter = None /\ triple # None
    /\ triple[1][1] # 0 /\ triple[1][2] = 0 /\ triple[1][3] # 0
    /\ case_mapping_iter = Some(<<>>)
    /\ fwd = triple[1]

----------------------------------------------------------------------------
\* size_hint() in the arithmetic of the target.

\* C33: the upper bound len * 3 * 4 of size_hint() of the full-Unicode
\* iterators is computed without overflow of usize for every remaining
\* length a slice can have, up to isize::MAX bytes, on a 32-bit and on a
\* 64-bit target: size_hint() never aborts and the upper bound it reports
\* is never below the lower bound it reports.
C33_SizeHintNoOverflow ==
    sized # None =>
        /\ ~sized[1].panic
        /\ usize_le(sized[1].hint[1], sized[1].hint[2][1])


====
